---------------------------- MODULE Spec2Model ----------------------------
(***************************************************************************)
(* A model of the constrained-field-model cores (cfm_core_v0, cfm_core_v1, *)
(* cfm_core_v2), their Configuration and State records and the objects     *)
(* that hold them.                                                         *)
(*                                                                         *)
(* Numbers.  The program computes with IEEE-754 doubles.  The model keeps  *)
(* the shape of that arithmetic in a small fixed-point format: a finite    *)
(* number is an integer count of 1/SCALE units, every operation rounds to  *)
(* the nearest unit, a result above MaxFloat overflows to +-infinity,      *)
(* inf - inf, 0 * inf and inf % 1 give NaN, every ordered comparison with  *)
(* NaN is false, and the operations that raise in Python (division by      *)
(* zero, math.sin of an infinity, ** overflow) give the marker Exc.        *)
(***************************************************************************)
EXTENDS Integers, Sequences, FiniteSets, TLC

\* ------------------------------------------------------------------------
\* The number format
\* ------------------------------------------------------------------------

\* units per 1.0 (the resolution of the format)
SCALE == 1000
\* the largest finite magnitude, in whole numbers (the format's DBL_MAX)
MaxFloat == 500

MaxRaw == MaxFloat * SCALE
PInf == MaxRaw + 1
NInf == 0 - (MaxRaw + 1)
NaN == MaxRaw + 2
\* a raised Python exception (ZeroDivisionError, ValueError, OverflowError)
Exc == MaxRaw + 3

\* a literal given in thousandths, in the format's units
Fx(milli) == (milli * SCALE + 500) \div 1000

ONE == SCALE

IsExc(a) == a = Exc
IsNaN(a) == a = NaN
IsInf(a) == a = PInf \/ a = NInf
IsFinite(a) == a >= 0 - MaxRaw /\ a <= MaxRaw
Abs(n) == IF n < 0 THEN 0 - n ELSE n
Sign(n) == IF n < 0 THEN 0 - 1 ELSE 1

\* an exact integer result brought back into the format
Norm(x) == IF x > MaxRaw THEN PInf ELSE IF x < 0 - MaxRaw THEN NInf ELSE x

\* Python's ordered comparisons on floats: false whenever an operand is NaN
Lt(a, b) == ~IsNaN(a) /\ ~IsNaN(b) /\ a < b
Le(a, b) == ~IsNaN(a) /\ ~IsNaN(b) /\ a <= b
Gt(a, b) == Lt(b, a)
Ge(a, b) == Le(b, a)

FNeg(a) ==
    IF IsExc(a) \/ IsNaN(a) THEN a ELSE 0 - a

FAdd(a, b) ==
    IF IsExc(a) \/ IsExc(b) THEN Exc
    ELSE IF IsNaN(a) \/ IsNaN(b) THEN NaN
    ELSE IF IsInf(a) THEN (IF IsInf(b) /\ a # b THEN NaN ELSE a)
    ELSE IF IsInf(b) THEN b
    ELSE Norm(a + b)

FSub(a, b) == FAdd(a, FNeg(b))

FMul(a, b) ==
    IF IsExc(a) \/ IsExc(b) THEN Exc
    ELSE IF IsNaN(a) \/ IsNaN(b) THEN NaN
    ELSE IF IsInf(a) \/ IsInf(b)
         THEN (IF a = 0 \/ b = 0 THEN NaN
               ELSE IF Sign(a) = Sign(b) THEN PInf ELSE NInf)
    ELSE IF a = 0 \/ b = 0 THEN 0
    ELSE IF Abs(a) > (MaxRaw * SCALE + SCALE) \div Abs(b)
         THEN (IF Sign(a) = Sign(b) THEN PInf ELSE NInf)
    ELSE Norm(Sign(a) * Sign(b) * ((Abs(a) * Abs(b) + SCALE \div 2) \div SCALE))

\* Python's float division: a zero divisor raises ZeroDivisionError
FDiv(a, b) ==
    IF IsExc(a) \/ IsExc(b) THEN Exc
    ELSE IF b = 0 THEN Exc
    ELSE IF IsNaN(a) \/ IsNaN(b) THEN NaN
    ELSE IF IsInf(a)
         THEN (IF IsInf(b) THEN NaN
               ELSE IF Sign(a) = Sign(b) THEN PInf ELSE NInf)
    ELSE IF IsInf(b) THEN 0
    ELSE Norm(Sign(a) * Sign(b) * ((Abs(a) * SCALE + Abs(b) \div 2) \div Abs(b)))

\* Python's x % 1.0: NaN for NaN and the infinities, else a value in [0, 1)
Mod1(a) ==
    IF IsExc(a) THEN Exc
    ELSE IF IsNaN(a) \/ IsInf(a) THEN NaN
    ELSE a % SCALE

\* Python's two-argument min and max: the first argument unless the second
\* compares below (above) it, so a NaN second argument is dropped
PyMin(a, b) ==
    IF IsExc(a) \/ IsExc(b) THEN Exc ELSE IF Lt(b, a) THEN b ELSE a
PyMax(a, b) ==
    IF IsExc(a) \/ IsExc(b) THEN Exc ELSE IF Gt(b, a) THEN b ELSE a

FAbs(a) ==
    IF IsExc(a) \/ IsNaN(a) THEN a ELSE Abs(a)

\* the integer square root, for x ** 0.5
RECURSIVE ISqrtIn(_, _, _)
ISqrtIn(n, lo, hi) ==
    IF lo >= hi THEN lo
    ELSE LET mid == (lo + hi + 1) \div 2
         IN IF mid * mid <= n THEN ISqrtIn(n, mid, hi) ELSE ISqrtIn(n, lo, mid - 1)

\* x ** 0.5 for a finite x >= 0
FSqrt(a) ==
    IF IsExc(a) THEN Exc
    ELSE IF IsNaN(a) THEN NaN
    ELSE IF a = PInf THEN PInf
    ELSE IF a < 0 THEN NaN
    ELSE ISqrtIn(a * SCALE, 0, 32000)

\* x ** 2 on floats: OverflowError when the result is out of range
FSquare(a) ==
    LET p == FMul(a, a)
    IN IF IsFinite(a) /\ IsInf(p) THEN Exc ELSE p

\* ------------------------------------------------------------------------
\* cfm_consts
\* ------------------------------------------------------------------------

PHI == Fx(1618)
PSI == Fx(1346)
PI == Fx(3142)

TWO_PI == FMul(Fx(2000), PI)

\* math.sin on [0, pi], by Bhaskara's rational approximation
\* 16 r (pi - r) / (5 pi^2 - 4 r (pi - r)), rounded to the nearest unit
SinHalf(r) ==
    LET p == (r * (PI - r) + SCALE \div 2) \div SCALE
        pi2 == (PI * PI + SCALE \div 2) \div SCALE
        num == 16 * p
        den == 5 * pi2 - 4 * p
        v == (num * SCALE + den \div 2) \div den
    IN IF v > SCALE THEN SCALE ELSE v

\* math.sin: NaN for NaN, ValueError for an infinity, else a value in [-1, 1]
Sin(a) ==
    IF IsExc(a) THEN Exc
    ELSE IF IsNaN(a) THEN NaN
    ELSE IF IsInf(a) THEN Exc
    ELSE LET r == a % TWO_PI
         IN IF r <= PI THEN SinHalf(r) ELSE 0 - SinHalf(r - PI)

\* math.pow(x, 1.0 / PHI) for x in [0, 1]: the exponent 1/phi = 0.618 is taken
\* as 5/8, so the power is x^(1/2) * x^(1/8), each root rounded down
PowInvPhi(a) ==
    IF IsExc(a) THEN Exc
    ELSE IF IsNaN(a) THEN NaN
    ELSE IF a = PInf THEN PInf
    ELSE LET r2 == FSqrt(a)
             r8 == FSqrt(FSqrt(r2))
         IN FMul(r2, r8)

\* _clamp01: max(0.0, min(1.0, value)); a NaN value comes out as 1.0
clamp01(value) == PyMax(0, PyMin(ONE, value))

\* ------------------------------------------------------------------------
\* cfm_core_v2/config.py
\* ------------------------------------------------------------------------

INV_PHI == FDiv(ONE, PHI)
PHI2 == FMul(PHI, PHI)
PHI3 == FMul(PHI2, PHI)
INV_PHI2 == FDiv(ONE, PHI2)
INV_PHI3 == FDiv(ONE, PHI3)

\* the field defaults of the dataclass
V2ConfigDefaults ==
    [tau_very_slow |-> PHI3,
     tau_slow |-> PHI2,
     tau_medium |-> PHI,
     tau_fast |-> INV_PHI,
     tau_very_fast |-> INV_PHI2,
     omega_global |-> INV_PHI,
     omega_local |-> FDiv(PHI, PHI2),
     basin_center_c |-> INV_PHI,
     basin_center_e |-> INV_PHI,
     basin_center_s |-> FSub(ONE, INV_PHI2),
     basin_radius |-> INV_PHI2,
     basin_strength_inner |-> INV_PHI2,
     basin_strength_outer |-> INV_PHI3,
     coherence_target |-> FAdd(INV_PHI, Fx(100)),
     energy_target |-> INV_PHI,
     stability_target |-> FSub(ONE, INV_PHI2),
     alignment_target |-> INV_PHI,
     coherence_energy_coupling |-> FDiv(ONE, FMul(Fx(2000), PHI)),
     stability_coherence_coupling |-> INV_PHI,
     alignment_stability_coupling |-> INV_PHI,
     resonance_coupling |-> INV_PHI2,
     instability_base |-> FDiv(ONE, FMul(Fx(2000), PHI)),
     pulse_threshold_low |-> INV_PHI2,
     pulse_threshold_medium |-> INV_PHI,
     pulse_threshold_high |-> FSub(ONE, INV_PHI2),
     energy_dissipation |-> INV_PHI2,
     envelope_decay |-> INV_PHI3,
     flux_damping |-> INV_PHI,
     alignment_lock_strength |-> INV_PHI,
     max_dt |-> ONE]

\* a time constant kept as given, zero included
PositiveOr_unchecked(x, default) == x

\* "if self.x <= 0: self.x = default"
PositiveOr(x, default) == IF Le(x, 0) THEN default ELSE x

\* each pulse threshold clamped to [0, 1] on its own
V2Config_post_init_unordered(c) ==
    [c EXCEPT
       !.pulse_threshold_low = PyMax(0, PyMin(ONE, @)),
       !.pulse_threshold_medium = PyMax(0, PyMin(ONE, @)),
       !.pulse_threshold_high = PyMax(0, PyMin(ONE, @))]

\* CFMCoreV2Config.__post_init__
V2Config_post_init(c) ==
    LET low == PyMax(0, PyMin(ONE, c.pulse_threshold_low))
        medium == PyMax(low, PyMin(ONE, c.pulse_threshold_medium))
        high == PyMax(medium, PyMin(ONE, c.pulse_threshold_high))
    IN [c EXCEPT
         !.tau_very_slow = PositiveOr(@, PHI3),
         !.tau_slow = PositiveOr(@, PHI2),
         !.tau_medium = PositiveOr(@, PHI),
         !.tau_fast = PositiveOr(@, INV_PHI),
         !.tau_very_fast = PositiveOr(@, INV_PHI2),
         !.omega_global = PositiveOr(@, INV_PHI),
         !.omega_local = PositiveOr(@, INV_PHI),
         !.coherence_target = PyMax(0, PyMin(ONE, @)),
         !.energy_target = PyMax(0, PyMin(ONE, @)),
         !.stability_target = PyMax(0, PyMin(ONE, @)),
         !.alignment_target = PyMax(0, PyMin(ONE, @)),
         !.basin_center_c = PyMax(0, PyMin(ONE, @)),
         !.basin_center_e = PyMax(0, PyMin(ONE, @)),
         !.basin_center_s = PyMax(0, PyMin(ONE, @)),
         !.basin_radius = PyMax(Fx(10), PyMin(Fx(500), @)),
         !.coherence_energy_coupling = PyMax(0, PyMin(ONE, @)),
         !.stability_coherence_coupling = PyMax(0, PyMin(ONE, @)),
         !.alignment_stability_coupling = PyMax(0, PyMin(ONE, @)),
         !.resonance_coupling = PyMax(0, PyMin(ONE, @)),
         !.instability_base = PyMax(0, PyMin(Fx(500), @)),
         !.pulse_threshold_low = low,
         !.pulse_threshold_medium = medium,
         !.pulse_threshold_high = high,
         !.max_dt = PositiveOr(@, ONE)]

\* CFMCoreV2Config(**overrides): the defaults, the overrides, then __post_init__
CFMCoreV2Config(overrides) ==
    V2Config_post_init(
        [f \in DOMAIN V2ConfigDefaults |->
            IF f \in DOMAIN overrides THEN overrides[f] ELSE V2ConfigDefaults[f]])

\* ------------------------------------------------------------------------
\* cfm_core_v2/state.py
\* ------------------------------------------------------------------------

V2StateDefaults ==
    [coherence_slow |-> INV_PHI,
     coherence_fast |-> INV_PHI,
     energy_potential |-> INV_PHI,
     energy_flux |-> INV_PHI2,
     stability_envelope |-> FSub(ONE, INV_PHI2),
     instability_pulse |-> INV_PHI2,
     phase_global |-> 0,
     phase_local |-> 0,
     alignment_field |-> INV_PHI,
     alignment_direction |-> INV_PHI,
     resonance_index |-> INV_PHI,
     time |-> 0,
     step_count |-> 0]

\* CFMCoreV2State.__post_init__ (step_count is an int: max(0, step_count))
V2State_post_init(s) ==
    [s EXCEPT
       !.coherence_slow = clamp01(@),
       !.coherence_fast = clamp01(@),
       !.energy_potential = clamp01(@),
       !.energy_flux = clamp01(@),
       !.stability_envelope = clamp01(@),
       !.instability_pulse = clamp01(@),
       !.alignment_field = clamp01(@),
       !.alignment_direction = clamp01(@),
       !.resonance_index = clamp01(@),
       !.phase_global = Mod1(@),
       !.phase_local = Mod1(@),
       !.time = PyMax(0, @),
       !.step_count = IF @ > 0 THEN @ ELSE 0]

\* CFMCoreV2State(**values)
CFMCoreV2State(values) ==
    V2State_post_init(
        [f \in DOMAIN V2StateDefaults |->
            IF f \in DOMAIN values THEN values[f] ELSE V2StateDefaults[f]])

\* CFMCoreV2State.validate
V2State_validate(s) ==
    LET bounded_valid ==
            /\ Le(0, s.coherence_slow) /\ Le(s.coherence_slow, ONE)
            /\ Le(0, s.coherence_fast) /\ Le(s.coherence_fast, ONE)
            /\ Le(0, s.energy_potential) /\ Le(s.energy_potential, ONE)
            /\ Le(0, s.energy_flux) /\ Le(s.energy_flux, ONE)
            /\ Le(0, s.stability_envelope) /\ Le(s.stability_envelope, ONE)
            /\ Le(0, s.instability_pulse) /\ Le(s.instability_pulse, ONE)
            /\ Le(0, s.alignment_field) /\ Le(s.alignment_field, ONE)
            /\ Le(0, s.alignment_direction) /\ Le(s.alignment_direction, ONE)
            /\ Le(0, s.resonance_index) /\ Le(s.resonance_index, ONE)
        phase_valid ==
            /\ Le(0, s.phase_global) /\ Lt(s.phase_global, ONE)
            /\ Le(0, s.phase_local) /\ Lt(s.phase_local, ONE)
        tracking_valid == Ge(s.time, 0) /\ s.step_count >= 0
    IN bounded_valid /\ phase_valid /\ tracking_valid

\* data.get(key, default)
dict_get(data, key, default) == IF key \in DOMAIN data THEN data[key] ELSE default

\* from_dict taking the default of energy_flux for a missing stability_envelope
V2State_from_dict_one_default(data) ==
    CFMCoreV2State(
        [coherence_slow |-> dict_get(data, "coherence_slow", FDiv(ONE, PHI)),
         coherence_fast |-> dict_get(data, "coherence_fast", FDiv(ONE, PHI)),
         energy_potential |-> dict_get(data, "energy_potential", FDiv(ONE, PHI)),
         energy_flux |-> dict_get(data, "energy_flux", FDiv(ONE, PHI2)),
         stability_envelope |-> dict_get(data, "stability_envelope", FDiv(ONE, PHI2)),
         instability_pulse |-> dict_get(data, "instability_pulse", FDiv(ONE, PHI2)),
         phase_global |-> dict_get(data, "phase_global", 0),
         phase_local |-> dict_get(data, "phase_local", 0),
         alignment_field |-> dict_get(data, "alignment_field", FDiv(ONE, PHI)),
         alignment_direction |-> dict_get(data, "alignment_direction", FDiv(ONE, PHI)),
         resonance_index |-> dict_get(data, "resonance_index", FDiv(ONE, PHI)),
         time |-> dict_get(data, "time", 0),
         step_count |-> dict_get(data, "step_count", 0)])

\* CFMCoreV2State.from_dict
V2State_from_dict(data) ==
    CFMCoreV2State(
        [coherence_slow |-> dict_get(data, "coherence_slow", FDiv(ONE, PHI)),
         coherence_fast |-> dict_get(data, "coherence_fast", FDiv(ONE, PHI)),
         energy_potential |-> dict_get(data, "energy_potential", FDiv(ONE, PHI)),
         energy_flux |-> dict_get(data, "energy_flux", FDiv(ONE, PHI2)),
         stability_envelope |->
             dict_get(data, "stability_envelope", FSub(ONE, FDiv(ONE, PHI2))),
         instability_pulse |-> dict_get(data, "instability_pulse", FDiv(ONE, PHI2)),
         phase_global |-> dict_get(data, "phase_global", 0),
         phase_local |-> dict_get(data, "phase_local", 0),
         alignment_field |-> dict_get(data, "alignment_field", FDiv(ONE, PHI)),
         alignment_direction |-> dict_get(data, "alignment_direction", FDiv(ONE, PHI)),
         resonance_index |-> dict_get(data, "resonance_index", FDiv(ONE, PHI)),
         time |-> dict_get(data, "time", 0),
         step_count |-> dict_get(data, "step_count", 0)])

\* CFMCoreV2State.to_dict: the thirteen fields under their names
V2State_to_dict(s) == [f \in DOMAIN V2StateDefaults |-> s[f]]

\* CFMCoreV2State.copy: the constructor, given the thirteen fields
V2State_copy_of(s) == CFMCoreV2State([f \in DOMAIN V2StateDefaults |-> s[f]])

\* CFMCoreV2State.get_distance_to_basin
V2State_get_distance_to_basin(s, basin_c, basin_e, basin_s) ==
    LET dc == FSub(s.coherence_slow, basin_c)
        de == FSub(s.energy_potential, basin_e)
        ds == FSub(s.stability_envelope, basin_s)
    IN FSqrt(FAdd(FAdd(FSquare(dc), FSquare(de)), FSquare(ds)))

\* ------------------------------------------------------------------------
\* cfm_core_v2/cfm_core.py
\* ------------------------------------------------------------------------

\* A step in progress: the State being mutated in place, and whether an
\* exception has been raised (the stages after a raise do not run).
Frame(s) == [st |-> s, exc |-> FALSE]

\* "self._state.<field> = v": evaluating v may raise, and then nothing is stored
Store(f, field, v) ==
    IF IsExc(v) THEN [f EXCEPT !.exc = TRUE] ELSE [f EXCEPT !.st[field] = v]

\* Python's == on floats
FEq(a, b) == ~IsNaN(a) /\ ~IsNaN(b) /\ a = b

\* _smooth_step: the Hermite polynomial "x * x * (3.0 - 2.0 * x)"
Hermite(t) == FMul(FMul(t, t), FSub(Fx(3000), FMul(Fx(2000), t)))

\* _smooth_step of cfm_core_v2
V2_smooth_step(x, edge0, edge1) ==
    IF IsExc(x) \/ IsExc(edge0) \/ IsExc(edge1) THEN Exc
    ELSE IF FEq(edge1, edge0) THEN (IF Ge(x, edge1) THEN ONE ELSE 0)
    ELSE Hermite(clamp01(FDiv(FSub(x, edge0), FSub(edge1, edge0))))

\* the branches of _basin_attraction with the outer tier reaching everywhere
V2_basin_force_everywhere(c, distance, direction, r_inner, r_outer) ==
    IF IsExc(distance) \/ IsExc(r_inner) THEN Exc
    ELSE IF Lt(distance, r_inner)
         THEN FMul(FMul(direction, c.basin_strength_inner), distance)
    ELSE FMul(direction, c.basin_strength_outer)

\* CFMCoreV2._basin_attraction: the branches, once distance, direction and
\* the two radii are computed
V2_basin_force(c, distance, direction, r_inner, r_outer) ==
    IF IsExc(distance) \/ IsExc(r_inner) THEN Exc
    ELSE IF Lt(distance, r_inner)
         THEN FMul(FMul(direction, c.basin_strength_inner), distance)
    ELSE IF IsExc(r_outer) THEN Exc
    ELSE IF Lt(distance, r_outer)
         THEN FMul(direction, c.basin_strength_outer)
    ELSE 0

\* CFMCoreV2._basin_attraction
V2_basin_attraction(c, x, mu) ==
    V2_basin_force(c,
                   FAbs(FSub(x, mu)),
                   IF Gt(mu, x) THEN ONE ELSE 0 - ONE,
                   FDiv(c.basin_radius, PHI),
                   FMul(c.basin_radius, PHI))

\* "alpha * coherence_slow + (1.0 - alpha) * coherence_fast"
V2_blend(alpha, slow, fast) == FAdd(FMul(alpha, slow), FMul(FSub(ONE, alpha), fast))

\* CFMCoreV2._compute_coherence_output
V2_compute_coherence_output(c, s) ==
    clamp01(V2_blend(V2_smooth_step(s.stability_envelope, Fx(300), Fx(800)),
                     s.coherence_slow, s.coherence_fast))

\* CFMCoreV2._compute_stability_output
V2_compute_stability_output(c, s) ==
    LET base == s.stability_envelope
        pulse_effect == FMul(s.instability_pulse, FSub(ONE, s.stability_envelope))
        resonance_boost == FMul(s.resonance_index, Fx(100))
    IN clamp01(FAdd(FSub(base, pulse_effect), resonance_boost))

\* CFMCoreV2._compute_intensity_output: the sum, once coherence_out is computed
V2_intensity(s, coherence_out) ==
    LET base == s.energy_potential
        flux_contrib == FMul(s.energy_flux, Fx(300))
        coherence_boost == FMul(coherence_out, Fx(200))
        phase_angle == FMul(TWO_PI, s.phase_global)
    IN FAdd(FAdd(FAdd(base, flux_contrib), coherence_boost),
            FMul(FMul(Fx(50), FAdd(ONE, Sin(FMul(phase_angle, PHI)))), coherence_out))

\* CFMCoreV2._compute_intensity_output
V2_compute_intensity_output(c, s) ==
    clamp01(V2_intensity(s, V2_compute_coherence_output(c, s)))

\* CFMCoreV2._compute_alignment_output: the lock-in branch, once lock_strength
\* is computed
V2_alignment_locked(c, base, lock_strength) ==
    LET target == FAdd(c.alignment_lock_strength,
                       FMul(FSub(ONE, c.alignment_lock_strength), lock_strength))
    IN FAdd(FMul(base, FSub(ONE, lock_strength)), FMul(target, lock_strength))

\* the two branches of _compute_alignment_output with the lock-in taken at
\* the threshold as well as above it
V2_alignment_lock_at_threshold(c, s, lock_in_potential) ==
    IF IsExc(lock_in_potential) THEN Exc
    ELSE IF Ge(lock_in_potential, c.alignment_lock_strength)
         THEN V2_alignment_locked(
                  c, s.alignment_field,
                  V2_smooth_step(lock_in_potential, c.alignment_lock_strength, ONE))
    ELSE FAdd(FAdd(s.alignment_field,
                   FMul(FSub(s.alignment_direction, Fx(500)), Fx(100))),
              FMul(s.resonance_index, Fx(150)))

\* CFMCoreV2._compute_alignment_output: the two branches, once
\* lock_in_potential is computed
V2_alignment(c, s, lock_in_potential) ==
    LET base == s.alignment_field
        direction_bias == FMul(FSub(s.alignment_direction, Fx(500)), Fx(100))
        resonance_boost == FMul(s.resonance_index, Fx(150))
    IN IF IsExc(lock_in_potential) THEN Exc
       ELSE IF Gt(lock_in_potential, c.alignment_lock_strength)
            THEN V2_alignment_locked(
                     c, base,
                     V2_smooth_step(lock_in_potential, c.alignment_lock_strength, ONE))
       ELSE FAdd(FAdd(base, direction_bias), resonance_boost)

\* "lock_in_potential = coherence_out * stability_out"
V2_lock_in_potential(c, s) ==
    FMul(V2_compute_coherence_output(c, s), V2_compute_stability_output(c, s))

\* CFMCoreV2._compute_alignment_output
V2_compute_alignment_output(c, s) ==
    clamp01(V2_alignment(c, s, V2_lock_in_potential(c, s)))

\* "0.5 + 0.5 * math.sin(2.0 * PI * phase)"
HalfWave(phase) == FAdd(Fx(500), FMul(Fx(500), Sin(FMul(TWO_PI, phase))))

\* CFMCoreV2._update_phase_global
V2_update_phase_global(f, c, dt) ==
    IF f.exc THEN f
    ELSE LET s == f.st
             phase_delta == FDiv(FMul(dt, c.omega_global), c.tau_fast)
         IN Store(f, "phase_global", Mod1(FAdd(s.phase_global, phase_delta)))

\* CFMCoreV2._update_phase_local
V2_update_phase_local(f, c, dt) ==
    IF f.exc THEN f
    ELSE LET s == f.st
             modulation == FAdd(ONE, FMul(Fx(200), Sin(FMul(TWO_PI, s.phase_global))))
         IN Store(f, "phase_local",
                  Mod1(FAdd(s.phase_local,
                            FDiv(FMul(FMul(dt, c.omega_local), modulation),
                                 c.tau_very_fast))))

\* CFMCoreV2._phase_modulation
V2_phase_modulation(c, s) ==
    clamp01(FAdd(FMul(HalfWave(s.phase_global), FDiv(ONE, PHI)),
                 FMul(HalfWave(s.phase_local), FSub(ONE, FDiv(ONE, PHI)))))

\* CFMCoreV2._update_instability_pulse: target_pulse, once pulse_drive and
\* threshold are computed
V2_target_pulse(pulse_drive, threshold) ==
    IF IsExc(pulse_drive) \/ IsExc(threshold) THEN Exc
    ELSE IF Gt(pulse_drive, threshold) THEN pulse_drive
    ELSE FMul(pulse_drive, Fx(300))

\* CFMCoreV2._update_instability_pulse
V2_update_instability_pulse(f, c, dt) ==
    IF f.exc THEN f
    ELSE LET s == f.st
             base_amplitude == FMul(c.instability_base, FSub(ONE, s.stability_envelope))
             threshold == FMul(s.stability_envelope, c.pulse_threshold_low)
         IN Store(f, "instability_pulse",
                  clamp01(FAdd(s.instability_pulse,
                               FDiv(FMul(dt,
                                         FSub(V2_target_pulse(
                                                  FMul(base_amplitude,
                                                       HalfWave(s.phase_global)),
                                                  threshold),
                                              s.instability_pulse)),
                                    c.tau_fast))))

\* CFMCoreV2._update_coherence_fast
V2_update_coherence_fast(f, c, dt) ==
    IF f.exc THEN f
    ELSE LET s == f.st
             resonance_term == FMul(FMul(s.resonance_index, s.alignment_field), Fx(100))
         IN Store(f, "coherence_fast",
                  clamp01(FAdd(s.coherence_fast,
                               FDiv(FMul(dt,
                                         FAdd(FMul(V2_phase_modulation(c, s),
                                                   FSub(s.coherence_slow, s.coherence_fast)),
                                              resonance_term)),
                                    c.tau_fast))))

\* CFMCoreV2._update_energy_flux
V2_update_energy_flux(f, c, dt) ==
    IF f.exc THEN f
    ELSE LET s == f.st
             gradient == FAbs(FSub(s.energy_potential, c.energy_target))
             damping == FMul(c.flux_damping, s.energy_flux)
         IN Store(f, "energy_flux",
                  clamp01(FAdd(s.energy_flux,
                               FDiv(FMul(dt,
                                         FSub(FSub(FMul(gradient, HalfWave(s.phase_global)),
                                                   damping),
                                              s.energy_flux)),
                                    c.tau_fast))))

\* CFMCoreV2._update_resonance_index: coherence_correlation
V2_coherence_correlation(s) ==
    IF Gt(s.coherence_slow, Fx(10))
    THEN FSub(ONE, FAbs(FSub(ONE, FDiv(s.coherence_fast, s.coherence_slow))))
    ELSE Fx(500)

\* CFMCoreV2._update_resonance_index: energy_correlation
V2_energy_correlation(s) ==
    IF Gt(s.energy_potential, Fx(10))
    THEN FSub(ONE, FAbs(FSub(Fx(500), FDiv(s.energy_flux, s.energy_potential))))
    ELSE Fx(500)

\* CFMCoreV2._update_resonance_index: phase_coherence, once phase_diff is
\* computed
V2_phase_coherence(phase_diff) ==
    FSub(ONE, FMul(Fx(2000), PyMin(phase_diff, FSub(ONE, phase_diff))))

\* CFMCoreV2._update_resonance_index: target_resonance
V2_target_resonance(s) ==
    clamp01(
        FDiv(FAdd(FAdd(FAdd(FMul(V2_coherence_correlation(s), FDiv(ONE, PHI)),
                            FMul(V2_energy_correlation(s), FDiv(ONE, PHI2))),
                       FMul(FSub(ONE, FMul(s.instability_pulse, s.stability_envelope)),
                            FDiv(ONE, PHI2))),
                  FMul(V2_phase_coherence(FAbs(FSub(s.phase_global, s.phase_local))),
                       FDiv(ONE, PHI3))),
             FAdd(FAdd(FDiv(ONE, PHI), FDiv(Fx(2000), PHI2)), FDiv(ONE, PHI3))))

\* CFMCoreV2._update_resonance_index
V2_update_resonance_index(f, c, dt) ==
    IF f.exc THEN f
    ELSE LET s == f.st
         IN Store(f, "resonance_index",
                  clamp01(FAdd(s.resonance_index,
                               FDiv(FMul(dt, FSub(V2_target_resonance(s),
                                                  s.resonance_index)),
                                    c.tau_medium))))

\* CFMCoreV2._update_alignment_field
V2_update_alignment_field(f, c, dt) ==
    IF f.exc THEN f
    ELSE LET s == f.st
             direction_coupling ==
                 FMul(FMul(c.resonance_coupling, FSub(s.alignment_direction, Fx(500))),
                      s.resonance_index)
         IN Store(f, "alignment_field",
                  clamp01(FAdd(s.alignment_field,
                               FDiv(FMul(dt,
                                         FAdd(FMul(V2_lock_in_potential(c, s),
                                                   FSub(c.alignment_target,
                                                        s.alignment_field)),
                                              direction_coupling)),
                                    c.tau_medium))))

\* CFMCoreV2._update_coherence_slow (prev_stability is passed and not read)
V2_update_coherence_slow(f, c, dt, prev_stability) ==
    IF f.exc THEN f
    ELSE LET s == f.st
             instability_effect == FMul(c.coherence_energy_coupling, s.instability_pulse)
         IN Store(f, "coherence_slow",
                  clamp01(FAdd(s.coherence_slow,
                               FDiv(FMul(dt,
                                         FAdd(FSub(FMul(FSub(c.coherence_target,
                                                             s.coherence_slow),
                                                        V2_smooth_step(s.energy_potential,
                                                                       Fx(200), Fx(800))),
                                                   instability_effect),
                                              V2_basin_attraction(c, s.coherence_slow,
                                                                  c.basin_center_c))),
                                    c.tau_slow))))

\* CFMCoreV2._update_energy_potential
V2_update_energy_potential(f, c, dt, prev_coherence) ==
    IF f.exc THEN f
    ELSE LET s == f.st
             dissipation == FMul(s.energy_flux, c.energy_dissipation)
             coherence_input == FMul(c.coherence_energy_coupling, prev_coherence)
         IN Store(f, "energy_potential",
                  clamp01(FAdd(s.energy_potential,
                               FDiv(FMul(dt,
                                         FAdd(FAdd(FSub(FSub(c.energy_target,
                                                             s.energy_potential),
                                                        dissipation),
                                                   coherence_input),
                                              V2_basin_attraction(c, s.energy_potential,
                                                                  c.basin_center_e))),
                                    c.tau_slow))))

\* CFMCoreV2._update_stability_envelope
V2_update_stability_envelope(f, c, dt, prev_coherence) ==
    IF f.exc THEN f
    ELSE LET s == f.st
             alignment_decay == FMul(c.envelope_decay, FSub(ONE, s.alignment_field))
         IN Store(f, "stability_envelope",
                  clamp01(FAdd(s.stability_envelope,
                               FMul(dt,
                                    FAdd(FSub(FDiv(FSub(FMul(c.stability_target,
                                                             V2_smooth_step(prev_coherence,
                                                                            Fx(300),
                                                                            Fx(800))),
                                                        s.stability_envelope),
                                                   c.tau_slow),
                                              alignment_decay),
                                         V2_basin_attraction(c, s.stability_envelope,
                                                             c.basin_center_s))))))

\* CFMCoreV2._update_alignment_direction
V2_update_alignment_direction(f, c, dt) ==
    IF f.exc THEN f
    ELSE LET s == f.st
             basin_center_direction == c.basin_center_c
         IN Store(f, "alignment_direction",
                  clamp01(FAdd(s.alignment_direction,
                               FDiv(FMul(dt,
                                         FMul(FSub(basin_center_direction,
                                                   s.alignment_direction),
                                              V2_smooth_step(s.stability_envelope,
                                                             Fx(300), Fx(800)))),
                                    c.tau_very_slow))))

\* _apply_pulse_response whose middle tier lowers coherence_slow as well
V2_apply_pulse_response_slow_in_medium(f, c) ==
    IF f.exc THEN f
    ELSE IF Gt(f.st.instability_pulse, c.pulse_threshold_medium)
    THEN [f EXCEPT
            !.st.coherence_fast =
                clamp01(FSub(@, FMul(Fx(50), FSub(f.st.instability_pulse,
                                                  c.pulse_threshold_medium)))),
            !.st.coherence_slow =
                clamp01(FSub(@, FMul(Fx(20), FSub(f.st.instability_pulse,
                                                  c.pulse_threshold_medium))))]
    ELSE f

\* CFMCoreV2._apply_pulse_response
V2_apply_pulse_response(f, c) ==
    IF f.exc THEN f
    ELSE LET s == f.st
             pulse == s.instability_pulse
             over(th) == FSub(pulse, th)
         IN IF Gt(pulse, c.pulse_threshold_high)
            THEN LET d == over(c.pulse_threshold_high)
                 IN [f EXCEPT
                       !.st.coherence_fast = clamp01(FSub(@, FMul(Fx(100), d))),
                       !.st.energy_flux = clamp01(FAdd(@, FMul(Fx(150), d))),
                       !.st.alignment_field = clamp01(FSub(@, FMul(Fx(80), d))),
                       !.st.coherence_slow = clamp01(FSub(@, FMul(Fx(20), d)))]
            ELSE IF Gt(pulse, c.pulse_threshold_medium)
            THEN LET d == over(c.pulse_threshold_medium)
                 IN [f EXCEPT
                       !.st.coherence_fast = clamp01(FSub(@, FMul(Fx(50), d))),
                       !.st.energy_flux = clamp01(FAdd(@, FMul(Fx(80), d))),
                       !.st.alignment_field = clamp01(FSub(@, FMul(Fx(30), d)))]
            ELSE IF Gt(pulse, c.pulse_threshold_low)
            THEN LET d == over(c.pulse_threshold_low)
                 IN [f EXCEPT !.st.coherence_fast = clamp01(FSub(@, FMul(Fx(20), d)))]
            ELSE f

\* "self._state.time += dt; self._state.step_count += 1"
Bookkeeping(s, dt) == Frame([s EXCEPT !.time = FAdd(@, dt), !.step_count = @ + 1])

\* the two stages handed the coherence_slow of the moment they run
V2_update_energy_potential_now(f, c, dt) ==
    V2_update_energy_potential(f, c, dt, f.st.coherence_slow)
V2_update_stability_envelope_now(f, c, dt) ==
    V2_update_stability_envelope(f, c, dt, f.st.coherence_slow)

\* _update_state in which the energy-potential and stability-envelope stages
\* read the coherence_slow the eighth stage has just written
V2_update_state_reading_current(s, c, dt) ==
    V2_apply_pulse_response(
     V2_update_alignment_direction(
      V2_update_stability_envelope_now(
       V2_update_energy_potential_now(
        V2_update_coherence_slow(
         V2_update_alignment_field(
          V2_update_resonance_index(
           V2_update_energy_flux(
            V2_update_coherence_fast(
             V2_update_instability_pulse(
              V2_update_phase_global(
               V2_update_phase_local(Bookkeeping(s, dt), c, dt),
               c, dt),
              c, dt),
             c, dt),
            c, dt),
           c, dt),
          c, dt),
         c, dt, s.stability_envelope),
        c, dt),
       c, dt),
      c, dt),
     c)

\* CFMCoreV2._update_state: the bookkeeping, then the twelve stages in order;
\* the slow stages are handed the values coherence_slow and
\* stability_envelope had when the call began
V2_update_state(s, c, dt) ==
    V2_apply_pulse_response(
     V2_update_alignment_direction(
      V2_update_stability_envelope(
       V2_update_energy_potential(
        V2_update_coherence_slow(
         V2_update_alignment_field(
          V2_update_resonance_index(
           V2_update_energy_flux(
            V2_update_coherence_fast(
             V2_update_instability_pulse(
              V2_update_phase_global(
               V2_update_phase_local(Bookkeeping(s, dt), c, dt),
               c, dt),
              c, dt),
             c, dt),
            c, dt),
           c, dt),
          c, dt),
         c, dt, s.stability_envelope),
        c, dt, s.coherence_slow),
       c, dt, s.coherence_slow),
      c, dt),
     c)

\* what step returns when it raises instead
NoOutput == [raised |-> TRUE]

\* the clamp without its lower bound
clamp_dt_no_floor(c, dt) == PyMin(dt, c.max_dt)

\* the clamp that lets no time pass
clamp_dt_to_zero(c, dt) == 0

\* "dt = max(0.0, min(dt, self.config.max_dt))", the first line of every step
clamp_dt(c, dt) == PyMax(0, PyMin(dt, c.max_dt))

\* CFMCoreV2.step: the mapping returned, once the outputs are computed from
\* the updated state
V2_returned(f, coherence, stability, intensity, alignment, basin_distance) ==
    IF f.exc \/ IsExc(coherence) \/ IsExc(stability) \/ IsExc(intensity)
             \/ IsExc(alignment) \/ IsExc(basin_distance)
    THEN [st |-> f.st, exc |-> TRUE, out |-> NoOutput]
    ELSE [st |-> f.st,
          exc |-> FALSE,
          out |-> [coherence |-> coherence,
                   stability |-> stability,
                   intensity |-> intensity,
                   alignment |-> alignment,
                   cfm_time |-> f.st.time,
                   cfm_step |-> f.st.step_count,
                   cfm_phase |-> f.st.phase_global,
                   cfm_version |-> 2,
                   cfm_resonance_index |-> f.st.resonance_index,
                   cfm_basin_distance |-> basin_distance]]

\* CFMCoreV2.step: the outputs computed from the updated state f
V2_result(c, f) ==
    V2_returned(f,
                V2_compute_coherence_output(c, f.st),
                V2_compute_stability_output(c, f.st),
                V2_compute_intensity_output(c, f.st),
                V2_compute_alignment_output(c, f.st),
                V2State_get_distance_to_basin(f.st, c.basin_center_c, c.basin_center_e,
                                              c.basin_center_s))

\* The body of CFMCoreV2.step
V2_run(c, s, dt) == V2_result(c, V2_update_state(s, c, clamp_dt(c, dt)))

\* an optional argument: None, or the object given
None == <<>>
Some(x) == <<x>>

\* A call of step: the result of the body, and the objects passed as
\* human_messages and external_events as they are after the call
Called(r, human_messages, external_events) ==
    [st |-> r.st, exc |-> r.exc, out |-> r.out,
     human_messages |-> human_messages, external_events |-> external_events]

\* a step that advances further when it is given messages, and consumes one
V2_step_reading(c, s, human_messages, external_events, dt) ==
    IF human_messages = None
    THEN Called(V2_run(c, s, dt), human_messages, external_events)
    ELSE Called(V2_run(c, s, FAdd(dt, Fx(100))),
                Some(Tail(human_messages[1])), external_events)

\* CFMCoreV2.step(human_messages, external_events, dt)
V2_step(c, s, human_messages, external_events, dt) ==
    Called(V2_run(c, s, dt), human_messages, external_events)

\* ------------------------------------------------------------------------
\* cfm_core_v0
\* ------------------------------------------------------------------------

V0ConfigDefaults ==
    [tau_energy |-> PHI,
     tau_instability |-> FMul(PHI, PHI),
     omega_base |-> INV_PHI,
     energy_target |-> INV_PHI,
     instability_base |-> FDiv(ONE, FMul(Fx(2000), PHI)),
     max_dt |-> ONE]

\* CFMCoreConfig.__post_init__
V0Config_post_init(c) ==
    [c EXCEPT
       !.tau_energy = PositiveOr(@, PHI),
       !.tau_instability = PositiveOr(@, FMul(PHI, PHI)),
       !.omega_base = PositiveOr(@, INV_PHI),
       !.energy_target = PyMax(0, PyMin(ONE, @)),
       !.instability_base = PyMax(0, PyMin(Fx(500), @)),
       !.max_dt = PositiveOr(@, ONE)]

CFMCoreConfig(overrides) ==
    V0Config_post_init(
        [f \in DOMAIN V0ConfigDefaults |->
            IF f \in DOMAIN overrides THEN overrides[f] ELSE V0ConfigDefaults[f]])

V0StateDefaults ==
    [coherence |-> INV_PHI,
     instability |-> FDiv(ONE, FMul(PHI, PHI)),
     energy |-> INV_PHI,
     phase |-> 0,
     time |-> 0,
     step_count |-> 0]

\* CFMCoreState.__post_init__
V0State_post_init(s) ==
    [s EXCEPT
       !.coherence = clamp01(@),
       !.instability = clamp01(@),
       !.energy = clamp01(@),
       !.phase = Mod1(@),
       !.time = PyMax(0, @),
       !.step_count = IF @ > 0 THEN @ ELSE 0]

CFMCoreState(values) ==
    V0State_post_init(
        [f \in DOMAIN V0StateDefaults |->
            IF f \in DOMAIN values THEN values[f] ELSE V0StateDefaults[f]])

\* CFMCore._update_state: the phase
V0_set_phase(f, c, dt) ==
    IF f.exc THEN f
    ELSE LET phase_delta == FMul(dt, c.omega_base)
         IN Store(f, "phase", Mod1(FAdd(f.st.phase, phase_delta)))

\* CFMCore._update_state: the energy
V0_set_energy(f, c, dt) ==
    IF f.exc THEN f
    ELSE LET energy_delta ==
                 FDiv(FMul(dt, FSub(c.energy_target, f.st.energy)),
                      FMul(c.tau_energy, PHI))
         IN Store(f, "energy", clamp01(FAdd(f.st.energy, energy_delta)))

\* CFMCore._update_state: the instability
V0_set_instability(f, c, dt) ==
    IF f.exc THEN f
    ELSE LET s == f.st
         IN Store(f, "instability",
                  clamp01(FAdd(s.instability,
                               FDiv(FMul(dt,
                                         FSub(FMul(c.instability_base,
                                                   Sin(FMul(TWO_PI, s.phase))),
                                              s.instability)),
                                    FDiv(c.tau_instability, PSI)))))

\* CFMCore._update_state: the coherence
V0_set_coherence(f, c, dt) ==
    IF f.exc THEN f
    ELSE LET s == f.st
         IN Store(f, "coherence",
                  clamp01(FAdd(s.coherence,
                               FDiv(FMul(dt,
                                         FSub(FMul(FSub(ONE, s.instability),
                                                   PowInvPhi(PyMax(0, s.energy))),
                                              s.coherence)),
                                    PHI))))

\* CFMCore._update_state
V0_update_state(s, c, dt) ==
    V0_set_coherence(
        V0_set_instability(
            V0_set_energy(
                V0_set_phase(Bookkeeping(s, dt), c, dt), c, dt), c, dt), c, dt)

\* CFMCore.step: the mapping returned, once alignment is computed
V0_returned(f, alignment) ==
    IF f.exc \/ IsExc(alignment)
    THEN [st |-> f.st, exc |-> TRUE, out |-> NoOutput]
    ELSE [st |-> f.st,
          exc |-> FALSE,
          out |-> [coherence |-> f.st.coherence,
                   stability |-> FSub(ONE, f.st.instability),
                   intensity |-> f.st.energy,
                   alignment |-> alignment,
                   cfm_time |-> f.st.time,
                   cfm_step |-> f.st.step_count,
                   cfm_phase |-> f.st.phase]]

\* CFMCore.step: the outputs computed from the updated state f
V0_result(c, f) ==
    V0_returned(f, clamp01(FDiv(FAdd(f.st.coherence, FSub(ONE, f.st.instability)),
                                Fx(2000))))

\* The body of CFMCore.step
V0_run(c, s, dt) == V0_result(c, V0_update_state(s, c, clamp_dt(c, dt)))

\* CFMCore.step(human_messages, external_events, dt)
V0_step(c, s, human_messages, external_events, dt) ==
    Called(V0_run(c, s, dt), human_messages, external_events)

\* ------------------------------------------------------------------------
\* cfm_core_v1
\* ------------------------------------------------------------------------

V1ConfigDefaults ==
    [tau_coherence |-> FMul(PHI, PHI),
     tau_energy |-> PHI,
     tau_instability |-> INV_PHI,
     omega_phase |-> INV_PHI,
     coherence_target |-> FAdd(INV_PHI, Fx(100)),
     energy_target |-> INV_PHI,
     stability_baseline |-> FSub(ONE, FDiv(ONE, FMul(PHI, PHI))),
     coherence_decay_rate |-> FDiv(ONE, PSI),
     alignment_lock_strength |-> INV_PHI,
     intensity_coherence_coupling |-> FDiv(ONE, FMul(Fx(2000), PHI)),
     instability_base |-> FDiv(ONE, FMul(Fx(2000), PHI)),
     max_dt |-> ONE]

\* CFMCoreV1Config.__post_init__
V1Config_post_init(c) ==
    [c EXCEPT
       !.tau_coherence = PositiveOr(@, FMul(PHI, PHI)),
       !.tau_energy = PositiveOr(@, PHI),
       !.tau_instability = PositiveOr(@, INV_PHI),
       !.omega_phase = PositiveOr(@, INV_PHI),
       !.coherence_target = PyMax(0, PyMin(ONE, @)),
       !.energy_target = PyMax(0, PyMin(ONE, @)),
       !.stability_baseline = PyMax(0, PyMin(ONE, @)),
       !.coherence_decay_rate = PyMax(0, PyMin(Fx(2000), @)),
       !.alignment_lock_strength = PyMax(0, PyMin(ONE, @)),
       !.intensity_coherence_coupling = PyMax(0, PyMin(Fx(500), @)),
       !.instability_base = PyMax(0, PyMin(Fx(500), @)),
       !.max_dt = PositiveOr(@, ONE)]

CFMCoreV1Config(overrides) ==
    V1Config_post_init(
        [f \in DOMAIN V1ConfigDefaults |->
            IF f \in DOMAIN overrides THEN overrides[f] ELSE V1ConfigDefaults[f]])

V1StateDefaults ==
    [coherence |-> INV_PHI,
     coherence_baseline |-> INV_PHI,
     energy |-> INV_PHI,
     instability |-> FDiv(ONE, FMul(PHI, PHI)),
     phase |-> 0,
     alignment_phase |-> 0,
     time |-> 0,
     step_count |-> 0]

\* CFMCoreV1State.__post_init__
V1State_post_init(s) ==
    [s EXCEPT
       !.coherence = clamp01(@),
       !.coherence_baseline = clamp01(@),
       !.energy = clamp01(@),
       !.instability = clamp01(@),
       !.phase = Mod1(@),
       !.alignment_phase = Mod1(@),
       !.time = PyMax(0, @),
       !.step_count = IF @ > 0 THEN @ ELSE 0]

CFMCoreV1State(values) ==
    V1State_post_init(
        [f \in DOMAIN V1StateDefaults |->
            IF f \in DOMAIN values THEN values[f] ELSE V1StateDefaults[f]])

\* _smooth_step of cfm_core_v1: no guard on edge1 == edge0
V1_smooth_step(x, edge0, edge1) ==
    Hermite(clamp01(FDiv(FSub(x, edge0), FSub(edge1, edge0))))

\* CFMCoreV1._update_state: the phase
V1_set_phase(f, c, dt) ==
    IF f.exc THEN f
    ELSE LET phase_delta == FMul(dt, c.omega_phase)
         IN Store(f, "phase", Mod1(FAdd(f.st.phase, phase_delta)))

\* CFMCoreV1._update_state: the alignment phase
V1_set_alignment_phase(f, c, dt) ==
    IF f.exc THEN f
    ELSE LET alignment_phase_delta == FMul(FMul(dt, c.omega_phase), PSI)
         IN Store(f, "alignment_phase",
                  Mod1(FAdd(f.st.alignment_phase, alignment_phase_delta)))

\* CFMCoreV1._update_state: the instability
V1_set_instability(f, c, dt) ==
    IF f.exc THEN f
    ELSE LET s == f.st
         IN Store(f, "instability",
                  clamp01(FAdd(s.instability,
                               FDiv(FMul(dt,
                                         FSub(FMul(c.instability_base, HalfWave(s.phase)),
                                              s.instability)),
                                    c.tau_instability))))

\* CFMCoreV1._update_state: the energy
V1_set_energy(f, c, dt) ==
    IF f.exc THEN f
    ELSE LET energy_delta ==
                 FDiv(FMul(dt, FSub(c.energy_target, f.st.energy)), c.tau_energy)
         IN Store(f, "energy", clamp01(FAdd(f.st.energy, energy_delta)))

\* CFMCoreV1._update_state: the coherence baseline
V1_set_coherence_baseline(f, c, dt) ==
    IF f.exc THEN f
    ELSE LET baseline_delta ==
                 FDiv(FMul(dt, FSub(c.coherence_target, f.st.coherence_baseline)),
                      FMul(c.tau_coherence, PHI))
         IN Store(f, "coherence_baseline",
                  clamp01(FAdd(f.st.coherence_baseline, baseline_delta)))

\* CFMCoreV1._update_state: the change of coherence toward its target
V1_coherence_delta(t, c, dt, target_coherence) ==
    IF IsExc(target_coherence) THEN Exc
    ELSE IF Gt(target_coherence, t.coherence)
    THEN FDiv(FMul(dt, FSub(target_coherence, t.coherence)), c.tau_coherence)
    ELSE LET decay_rate == FMul(c.coherence_decay_rate, FAdd(ONE, t.instability))
         IN FDiv(FMul(FMul(dt, FSub(target_coherence, t.coherence)), decay_rate),
                 c.tau_coherence)

\* CFMCoreV1._update_state: the coherence
V1_set_coherence(f, c, dt) ==
    IF f.exc THEN f
    ELSE LET s == f.st
         IN Store(f, "coherence",
                  clamp01(FAdd(s.coherence,
                               V1_coherence_delta(
                                   s, c, dt,
                                   clamp01(FMul(FMul(s.coherence_baseline,
                                                     FSub(ONE, s.instability)),
                                                PowInvPhi(PyMax(0, s.energy))))))))

\* CFMCoreV1._update_state
V1_update_state(s, c, dt) ==
    V1_set_coherence(
        V1_set_coherence_baseline(
            V1_set_energy(
                V1_set_instability(
                    V1_set_alignment_phase(
                        V1_set_phase(Bookkeeping(s, dt), c, dt),
                        c, dt), c, dt), c, dt), c, dt), c, dt)

\* CFMCoreV1._compute_stability
V1_compute_stability(c, s) ==
    LET base_stability == FSub(ONE, s.instability)
    IN IF Gt(base_stability, c.stability_baseline)
       THEN clamp01(FAdd(FMul(base_stability, Fx(900)),
                         FMul(c.stability_baseline, Fx(100))))
       ELSE clamp01(base_stability)

\* CFMCoreV1._compute_intensity
V1_compute_intensity(c, s) ==
    LET baseline == s.energy
        coherence_boost == FMul(s.coherence, c.intensity_coherence_coupling)
        phase_angle == FMul(TWO_PI, s.phase)
        activation ==
            FMul(FMul(Fx(50), FAdd(ONE, Sin(FMul(phase_angle, PHI)))), s.coherence)
    IN clamp01(FAdd(FAdd(baseline, coherence_boost), activation))

\* CFMCoreV1._compute_alignment: the lock-in branch, once lock_strength is
\* computed
V1_alignment_locked(threshold, base_alignment, lock_strength) ==
    LET target == FAdd(threshold, FMul(FSub(ONE, threshold), lock_strength))
    IN FAdd(FMul(base_alignment, FSub(ONE, lock_strength)), FMul(target, lock_strength))

\* CFMCoreV1._compute_alignment: the two branches, once base_alignment and
\* lock_in_potential are computed
V1_alignment(c, s, base_alignment, lock_in_potential) ==
    IF IsExc(lock_in_potential) THEN Exc
    ELSE IF Gt(lock_in_potential, c.alignment_lock_strength)
         THEN V1_alignment_locked(
                  c.alignment_lock_strength, base_alignment,
                  V1_smooth_step(lock_in_potential, c.alignment_lock_strength, ONE))
    ELSE FAdd(base_alignment,
              FMul(FMul(Fx(100), Sin(FMul(TWO_PI, s.alignment_phase))),
                   FSub(ONE, lock_in_potential)))

\* CFMCoreV1._compute_alignment
V1_compute_alignment(c, s, coherence, stability) ==
    clamp01(V1_alignment(c, s, FDiv(FAdd(coherence, stability), Fx(2000)),
                         FMul(coherence, stability)))

\* CFMCoreV1.step: the mapping returned, once the outputs are computed
V1_returned(f, stability, intensity, alignment) ==
    IF f.exc \/ IsExc(stability) \/ IsExc(intensity) \/ IsExc(alignment)
    THEN [st |-> f.st, exc |-> TRUE, out |-> NoOutput]
    ELSE [st |-> f.st,
          exc |-> FALSE,
          out |-> [coherence |-> f.st.coherence,
                   stability |-> stability,
                   intensity |-> intensity,
                   alignment |-> alignment,
                   cfm_time |-> f.st.time,
                   cfm_step |-> f.st.step_count,
                   cfm_phase |-> f.st.phase,
                   cfm_version |-> 1]]

\* CFMCoreV1.step: the outputs computed from the updated state f
V1_result(c, f) ==
    V1_returned(f,
                V1_compute_stability(c, f.st),
                V1_compute_intensity(c, f.st),
                V1_compute_alignment(c, f.st, f.st.coherence,
                                     V1_compute_stability(c, f.st)))

\* The body of CFMCoreV1.step
V1_run(c, s, dt) == V1_result(c, V1_update_state(s, c, clamp_dt(c, dt)))

\* CFMCoreV1.step(human_messages, external_events, dt)
V1_step(c, s, human_messages, external_events, dt) ==
    Called(V1_run(c, s, dt), human_messages, external_events)


\* ------------------------------------------------------------------------
\* The state machine
\* ------------------------------------------------------------------------

VARIABLES
    \* one core of one variant being stepped
    variant,            \* 0, 1 or 2: CFMCore, CFMCoreV1, CFMCoreV2
    config,             \* the core's self.config
    state,              \* the core's self._state
    out,                \* the mapping returned by the last step
    raised,             \* whether some step raised
    steps,              \* number of step calls made
    dt_in,              \* the dt passed to the last step
    passed,             \* which optional arguments the last step was given
    human_messages,     \* the caller's list of messages
    external_events,    \* the caller's dict of events
    \* objects and references
    configs,            \* the Configuration objects, by reference
    states,             \* the State objects, by reference
    core,               \* the cores: their config and _state references
    held,               \* references to State objects the caller holds
    trace,              \* per core, the calls made since construction
    op,                 \* the last operation
    writes,             \* number of attribute writes the caller has made
    \* constructors
    kwargs,             \* keyword arguments given to a constructor
    built,              \* the object the constructor returned
    \* the adapter around a core
    adapter,            \* the CFMCoreAdapter: its config and its counters
    bundle,             \* what the adapter's last step returned or raised
    calls,              \* the calls made on the adapter, with what the
                        \* wrapped core did in each
    \* the generators of the reference runs
    rng,                \* the DeterministicRNG objects
    draws               \* per generator, the calls made and what they returned

stepVars == <<variant, config, state, out, raised, steps, dt_in, passed,
              human_messages, external_events>>
objVars == <<configs, states, core, held, trace, op, writes>>
ctorVars == <<kwargs, built>>
adapterVars == <<adapter, bundle, calls>>
rngVars == <<rng, draws>>
vars == <<stepVars, objVars, ctorVars, adapterVars, rngVars>>

NotCalled == [called |-> FALSE]

\* ---- stepping one core ---------------------------------------------------

MaxSteps == 2

\* dt values given to step: negative, zero, small, the default max_dt, large
DtSet == {Fx(0 - 1000), 0, Fx(100), ONE, Fx(5000)}

\* Configurations a core is constructed with, built by the constructors
SimConfigs(v) ==
    CASE v = 2 ->
           {CFMCoreV2Config(<<>>),
            CFMCoreV2Config([tau_fast |-> 1]),
            CFMCoreV2Config([instability_base |-> Fx(900),
                             pulse_threshold_low |-> Fx(50),
                             pulse_threshold_medium |-> Fx(100),
                             pulse_threshold_high |-> Fx(200),
                             alignment_lock_strength |-> ONE,
                             basin_radius |-> Fx(2000),
                             tau_slow |-> Fx(0 - 1000),
                             tau_medium |-> 0]),
            CFMCoreV2Config([alignment_lock_strength |-> 0,
                             basin_strength_inner |-> Fx(400000),
                             flux_damping |-> Fx(300000),
                             energy_dissipation |-> Fx(0 - 2000),
                             max_dt |-> Fx(5000)])}
      [] v = 1 ->
           {CFMCoreV1Config(<<>>),
            CFMCoreV1Config([alignment_lock_strength |-> ONE,
                             stability_baseline |-> ONE,
                             coherence_target |-> Fx(2000)]),
            CFMCoreV1Config([tau_coherence |-> 1, tau_energy |-> 1,
                             tau_instability |-> 1,
                             alignment_lock_strength |-> 0,
                             max_dt |-> Fx(5000)])}
      [] v = 0 ->
           {CFMCoreConfig(<<>>),
            CFMCoreConfig([tau_energy |-> 1, tau_instability |-> 1,
                           instability_base |-> Fx(900),
                           max_dt |-> Fx(5000)])}

\* States a core is constructed with, built by the constructors
SimStates(v) ==
    CASE v = 2 ->
           {CFMCoreV2State(<<>>),
            CFMCoreV2State([coherence_slow |-> Fx(100),
                            energy_potential |-> Fx(900),
                            stability_envelope |-> Fx(200)]),
            CFMCoreV2State([coherence_slow |-> Fx(5),
                            coherence_fast |-> Fx(2000),
                            energy_potential |-> 0,
                            stability_envelope |-> ONE,
                            instability_pulse |-> ONE,
                            phase_global |-> Fx(999),
                            phase_local |-> Fx(0 - 300)])}
      [] v = 1 ->
           {CFMCoreV1State(<<>>),
            CFMCoreV1State([coherence |-> ONE, coherence_baseline |-> ONE,
                            energy |-> ONE, instability |-> 0]),
            CFMCoreV1State([coherence |-> 0, energy |-> 0,
                            instability |-> ONE, phase |-> Fx(999)])}
      [] v = 0 ->
           {CFMCoreState(<<>>),
            CFMCoreState([coherence |-> ONE, instability |-> ONE,
                          energy |-> 0, phase |-> Fx(999)])}

InitObjIdle ==
    /\ configs = <<>>
    /\ states = <<>>
    /\ core = <<>>
    /\ held = {}
    /\ trace = <<>>
    /\ op = [kind |-> "none"]
    /\ writes = 0

InitCtorIdle ==
    /\ kwargs = <<>>
    /\ built = NotCalled

InitAdapterIdle ==
    /\ adapter = NotCalled
    /\ bundle = NotCalled
    /\ calls = <<>>

InitRngIdle ==
    /\ rng = <<>>
    /\ draws = <<>>

InitStep ==
    /\ variant \in {0, 1, 2}
    /\ config \in SimConfigs(variant)
    /\ state \in SimStates(variant)
    /\ out = NotCalled
    /\ raised = FALSE
    /\ steps = 0
    /\ dt_in = 0
    /\ passed = {}
    /\ human_messages = <<"hello", "world">>
    /\ external_events = [sensor |-> 1]
    /\ InitObjIdle
    /\ InitCtorIdle
    /\ InitAdapterIdle
    /\ InitRngIdle

\* what a step call leaves behind
AfterStep(r, dt, given) ==
    /\ state' = r.st
    /\ out' = r.out
    /\ raised' = (raised \/ r.exc)
    /\ steps' = steps + 1
    /\ dt_in' = dt
    /\ passed' = given
    /\ human_messages' =
           IF "human_messages" \in given THEN r.human_messages[1]
           ELSE human_messages
    /\ external_events' =
           IF "external_events" \in given THEN r.external_events[1]
           ELSE external_events
    /\ UNCHANGED <<variant, config, objVars, ctorVars, adapterVars, rngVars>>

\* the caller gives step both optional arguments, or neither
Given == {{}, {"human_messages", "external_events"}}

ArgMessages(given) ==
    IF "human_messages" \in given THEN Some(human_messages) ELSE None

ArgEvents(given) ==
    IF "external_events" \in given THEN Some(external_events) ELSE None

StepV0 ==
    /\ variant = 0
    /\ steps < MaxSteps
    /\ \E dt \in DtSet, given \in Given :
          AfterStep(V0_step(config, state, ArgMessages(given), ArgEvents(given), dt),
                    dt, given)

StepV1 ==
    /\ variant = 1
    /\ steps < MaxSteps
    /\ \E dt \in DtSet, given \in Given :
          AfterStep(V1_step(config, state, ArgMessages(given), ArgEvents(given), dt),
                    dt, given)

StepV2 ==
    /\ variant = 2
    /\ steps < MaxSteps
    /\ \E dt \in DtSet, given \in Given :
          AfterStep(V2_step(config, state, ArgMessages(given), ArgEvents(given), dt),
                    dt, given)

NextStep == StepV0 \/ StepV1 \/ StepV2

SpecStep == InitStep /\ [][NextStep]_vars

\* ---- properties of stepping ------------------------------------------------

InUnit(x) == IsFinite(x) /\ 0 <= x /\ x <= ONE
InPhase(x) == IsFinite(x) /\ 0 <= x /\ x < ONE

\* the body of step for the variant, which gets only config, state and dt
Run(v, c, s, dt) ==
    CASE v = 0 -> V0_run(c, s, dt)
      [] v = 1 -> V1_run(c, s, dt)
      [] v = 2 -> V2_run(c, s, dt)

V2NonPhaseBounded(s) ==
    /\ InUnit(s.coherence_slow)
    /\ InUnit(s.coherence_fast)
    /\ InUnit(s.energy_potential)
    /\ InUnit(s.energy_flux)
    /\ InUnit(s.stability_envelope)
    /\ InUnit(s.instability_pulse)
    /\ InUnit(s.alignment_field)
    /\ InUnit(s.alignment_direction)
    /\ InUnit(s.resonance_index)

V2PhasesBounded(s) == InPhase(s.phase_global) /\ InPhase(s.phase_local)

\* C1: after every step of a v2 core the nine non-phase variables are in
\* [0,1] and both phases are in [0,1), so verify_state_bounds() is True.
C1_StateBoundedAfterStep ==
    (variant = 2 /\ steps > 0 /\ ~raised) =>
        /\ V2NonPhaseBounded(state)
        /\ V2PhasesBounded(state)
        /\ V2State_validate(state)

FourOutputsBounded(o) ==
    /\ InUnit(o.coherence)
    /\ InUnit(o.stability)
    /\ InUnit(o.intensity)
    /\ InUnit(o.alignment)

\* C2: in every variant each returned coherence, stability, intensity and
\* alignment is in [0,1]; a v2 step also returns cfm_phase in [0,1),
\* cfm_resonance_index in [0,1] and cfm_basin_distance >= 0.
C2_OutputsBounded ==
    (steps > 0 /\ ~raised) =>
        /\ FourOutputsBounded(out)
        /\ variant = 2 =>
              /\ InPhase(out.cfm_phase)
              /\ InUnit(out.cfm_resonance_index)
              /\ ~IsNaN(out.cfm_basin_distance) /\ out.cfm_basin_distance >= 0

\* min(max(dt, 0), max_dt) on the numbers themselves
Applied(dt, max_dt) == IF dt < 0 THEN 0 ELSE IF dt > max_dt THEN max_dt ELSE dt

\* C4: a v2 step adds one to step_count and min(max(dt, 0), max_dt) to time,
\* so time never decreases and stays >= 0, and the cfm_time and cfm_step it
\* returns are the time and step_count after the update.
C4_TimeAndStepCount ==
    [][(variant = 2 /\ steps' = steps + 1) =>
          /\ state'.step_count = state.step_count + 1
          /\ state'.time = FAdd(state.time, Applied(dt_in', config.max_dt))
          /\ state'.time >= state.time
          /\ state'.time >= 0
          /\ ~raised' => /\ out'.cfm_time = state'.time
                         /\ out'.cfm_step = state'.step_count]_vars

\* a v2 core stepped twice, the second time with a negative dt after time
\* has advanced
C4_Witness ==
    /\ variant = 2
    /\ steps = 2
    /\ dt_in < 0
    /\ state.time > 0
    /\ out.cfm_step = 2

\* C6: the state and the output after a step are those computed from the
\* state, the config and dt alone, whatever was passed as human_messages
\* and external_events, and the objects passed are left as they were.
C6_MessagesAndEventsIgnored ==
    [][steps' = steps + 1 =>
          /\ state' = Run(variant, config, state, dt_in').st
          /\ out' = Run(variant, config, state, dt_in').out
          /\ human_messages' = human_messages
          /\ external_events' = external_events]_vars

\* a v2 step that was given a list of messages and a dict of events
C6_Witness ==
    /\ variant = 2
    /\ steps > 0
    /\ passed = {"human_messages", "external_events"}
    /\ Len(human_messages) = 2
    /\ dt_in > 0

\* C9: no step raises in any variant, and every step returns a mapping.
C9_StepNeverRaises ==
    steps > 0 => (~raised /\ out # NoOutput /\ out # NotCalled)

\* a v1 core whose alignment_lock_strength is 1.0 has stepped with
\* coherence * stability equal to 1.0, the threshold of the lock-in branch
C9_Witness ==
    /\ variant = 1
    /\ steps > 0
    /\ ~raised
    /\ config.alignment_lock_strength = ONE
    /\ out.coherence = ONE
    /\ out.stability = ONE

\* ---- objects: cores, their State and Configuration -------------------------

\* cfm_core_v2/presets.py: the preset objects made when the module is loaded
CFM_V2_PRESET_BASELINE == CFMCoreV2Config(<<>>)

CFM_V2_PRESET_HIGH_STABILITY ==
    CFMCoreV2Config(
        [stability_target |-> FAdd(INV_PHI, Fx(200)),
         stability_coherence_coupling |-> PyMin(ONE, FMul(INV_PHI, Fx(1500))),
         instability_base |-> FDiv(ONE, FMul(Fx(3000), PHI)),
         pulse_threshold_low |-> INV_PHI,
         pulse_threshold_medium |-> FAdd(INV_PHI, Fx(200)),
         pulse_threshold_high |-> FSub(ONE, FDiv(ONE, FMul(Fx(2000), PHI2))),
         envelope_decay |-> INV_PHI2,
         tau_very_slow |-> FMul(PHI2, PHI2),
         alignment_lock_strength |-> FAdd(INV_PHI, Fx(100))])

CFM_V2_PRESET_HIGH_RESONANCE ==
    CFMCoreV2Config(
        [resonance_coupling |-> INV_PHI,
         coherence_energy_coupling |-> INV_PHI,
         stability_coherence_coupling |-> FSub(ONE, INV_PHI2),
         alignment_stability_coupling |-> FSub(ONE, INV_PHI2),
         alignment_lock_strength |-> INV_PHI,
         basin_radius |-> INV_PHI3,
         basin_strength_inner |-> INV_PHI,
         basin_strength_outer |-> INV_PHI2])

\* a preset whose fastest time constant equals the default tau_fast
CFM_V2_PRESET_PULSED_ACTIVITY_flat ==
    CFMCoreV2Config([tau_very_fast |-> INV_PHI])

CFM_V2_PRESET_PULSED_ACTIVITY ==
    CFMCoreV2Config(
        [instability_base |-> INV_PHI,
         pulse_threshold_low |-> INV_PHI3,
         pulse_threshold_medium |-> INV_PHI2,
         pulse_threshold_high |-> INV_PHI,
         energy_dissipation |-> INV_PHI,
         envelope_decay |-> INV_PHI2,
         tau_very_fast |-> INV_PHI3,
         tau_fast |-> INV_PHI2,
         basin_radius |-> INV_PHI,
         basin_strength_inner |-> INV_PHI3])

\* the Configuration objects that exist once the presets module is loaded;
\* a reference is an index into this sequence
PresetObjects ==
    <<CFM_V2_PRESET_BASELINE, CFM_V2_PRESET_HIGH_STABILITY,
      CFM_V2_PRESET_HIGH_RESONANCE, CFM_V2_PRESET_PULSED_ACTIVITY>>

\* CFM_V2_PRESETS: name -> the preset object (its reference)
CFM_V2_PRESETS ==
    [baseline |-> 1, high_stability |-> 2, high_resonance |-> 3,
     pulsed_activity |-> 4]

\* A Python str is the sequence of its characters; Str is the same text as
\* one string, the form in which it is a dictionary key or part of a message.
RECURSIVE Str(_)
Str(chars) == IF chars = <<>> THEN "" ELSE Head(chars) \o Str(Tail(chars))

UpperCase ==
    <<"A", "B", "C", "D", "E", "F", "G", "H", "I", "J", "K", "L", "M",
      "N", "O", "P", "Q", "R", "S", "T", "U", "V", "W", "X", "Y", "Z">>
LowerCase ==
    <<"a", "b", "c", "d", "e", "f", "g", "h", "i", "j", "k", "l", "m",
      "n", "o", "p", "q", "r", "s", "t", "u", "v", "w", "x", "y", "z">>

\* str.lower(): every upper-case letter becomes its lower-case letter
lower(name) ==
    [i \in DOMAIN name |->
        IF \E k \in DOMAIN UpperCase : UpperCase[k] = name[i]
        THEN LowerCase[CHOOSE k \in DOMAIN UpperCase : UpperCase[k] = name[i]]
        ELSE name[i]]

\* str.replace(old, new) for one-character old and new
replace(name, old, new) ==
    [i \in DOMAIN name |-> IF name[i] = old THEN new ELSE name[i]]

\* the keys of CFM_V2_PRESETS in the order they were inserted
PresetNames ==
    <<<<"b", "a", "s", "e", "l", "i", "n", "e">>,
      <<"h", "i", "g", "h", "_", "s", "t", "a", "b", "i", "l", "i", "t", "y">>,
      <<"h", "i", "g", "h", "_", "r", "e", "s", "o", "n", "a", "n", "c", "e">>,
      <<"p", "u", "l", "s", "e", "d", "_", "a", "c", "t", "i", "v", "i", "t", "y">>>>

\* ", ".join(keys), as the pieces of the text in order
RECURSIVE join(_)
join(keys) ==
    IF keys = <<>> THEN <<>>
    ELSE IF Len(keys) = 1 THEN <<Str(keys[1])>>
    ELSE <<Str(keys[1]), ", ">> \o join(Tail(keys))

\* a call that returned value / a call that raised ValueError(message);
\* a message is the sequence of the pieces of its text
Returned(value) == [raised |-> FALSE, value |-> value]
ValueError(message) == [raised |-> TRUE, type |-> "ValueError", message |-> message]

\* name.lower().replace("-", "_") : the space is left as it is
name_lower_hyphen_only(name) == replace(lower(name), "-", "_")

\* name.lower().replace("-", "_").replace(" ", "_")
name_lower(name) == replace(replace(lower(name), "-", "_"), " ", "_")

\* get_preset(name): the registered object itself, or ValueError
get_preset(name) ==
    IF Str(name_lower(name)) \notin DOMAIN CFM_V2_PRESETS
    THEN ValueError(<<"Unknown preset '", Str(name), "'. Valid presets: ">>
                    \o join(PresetNames))
    ELSE Returned(CFM_V2_PRESETS[Str(name_lower(name))])

\* the State objects the caller has built before any core exists
CallerStates ==
    <<CFMCoreV2State([coherence_slow |-> Fx(100),
                      energy_potential |-> Fx(900),
                      stability_envelope |-> Fx(200)])>>

\* a new object on the heap: the heap with it, and its reference
New(heap, object) == [heap |-> Append(heap, object), ref |-> Len(heap) + 1]
Same(heap, r) == [heap |-> heap, ref |-> r]

\* CFMCoreV2State.copy(): a new State built from the fields of this one
V2State_copy(heap, r) == New(heap, CFMCoreV2State(heap[r]))

\* "self.config = config or CFMCoreV2Config()"; 0 stands for None
V2_init_config(heap, cfg) ==
    IF cfg = 0 THEN New(heap, CFMCoreV2Config(<<>>)) ELSE Same(heap, cfg)

\* a constructor that keeps the caller's State object instead of a copy
V2_init_state_kept(heap, initial_state) ==
    IF initial_state = 0 THEN New(heap, CFMCoreV2State(<<>>))
    ELSE Same(heap, initial_state)

\* "self._state = initial_state.copy() if initial_state else CFMCoreV2State()"
V2_init_state(heap, initial_state) ==
    IF initial_state = 0 THEN New(heap, CFMCoreV2State(<<>>))
    ELSE V2State_copy(heap, initial_state)

\* reset that leaves the core's State object in place
V2_reset_keeping(heap, cur, initial_state) == Same(heap, cur)

\* CFMCoreV2.reset(initial_state): the core's new State object
V2_reset(heap, cur, initial_state) ==
    IF initial_state = 0 THEN New(heap, CFMCoreV2State(<<>>))
    ELSE V2State_copy(heap, initial_state)

\* get_state handing out the core's own State object
V2_get_state_itself(heap, cur) == Same(heap, cur)

\* CFMCoreV2.get_state(): "return self._state.copy()"
V2_get_state(heap, cur) == V2State_copy(heap, cur)

Cores == {1, 2}

NoCore == [made |-> FALSE, config |-> 0, state |-> 0, initial |-> NotCalled]

MaxRun == 2         \* step calls per core between construction and resets
MaxResets == 1      \* reset calls per core
MaxSnapshots == 1   \* get_state calls
MaxWrites == 1      \* attribute writes by the caller

\* dt values given to the cores of the object model
ObjDt == {Fx(100), ONE}

\* presets asked of the factory
PresetsUsed == {PresetNames[1]}

InitStepIdle ==
    /\ variant = 2
    /\ config = NotCalled
    /\ state = NotCalled
    /\ out = NotCalled
    /\ raised = FALSE
    /\ steps = 0
    /\ dt_in = 0
    /\ passed = {}
    /\ human_messages = <<>>
    /\ external_events = <<>>

InitObjects ==
    /\ configs = PresetObjects
    /\ states = CallerStates
    /\ core = [i \in Cores |-> NoCore]
    /\ held = DOMAIN CallerStates
    /\ trace = [i \in Cores |-> <<>>]
    /\ op = [kind |-> "none", core |-> 0, ref |-> 0]
    /\ writes = 0
    /\ InitStepIdle
    /\ InitCtorIdle
    /\ InitAdapterIdle
    /\ InitRngIdle

StepEvents(t) == {k \in DOMAIN t : t[k].kind = "step"}
ResetEvents(t) == {k \in DOMAIN t : t[k].kind = "reset"}

\* the step calls made on a core since its last reset (or its construction)
RunLength(t) ==
    LET last == IF ResetEvents(t) = {} THEN 0
                ELSE CHOOSE k \in ResetEvents(t) : \A j \in ResetEvents(t) : j <= k
    IN Len(t) - last

\* CFMCoreV2(config=cfg, initial_state=initial_state)
Construct(i, cfg, initial_state) ==
    /\ ~core[i].made
    /\ LET c == V2_init_config(configs, cfg)
           s == V2_init_state(states, initial_state)
       IN /\ configs' = c.heap
          /\ states' = s.heap
          /\ core' = [core EXCEPT ![i] =
                         [made |-> TRUE, config |-> c.ref, state |-> s.ref,
                          initial |-> s.heap[s.ref]]]
    /\ op' = [kind |-> "construct", core |-> i, ref |-> initial_state]
    /\ UNCHANGED <<held, trace, writes, stepVars, ctorVars, adapterVars, rngVars>>

\* create_cfm_core("cfm_v2", preset=name)
CreateCfmCore(i, name) ==
    /\ ~core[i].made
    /\ LET c == V2_init_config(configs, get_preset(name).value)
           s == V2_init_state(states, 0)
       IN /\ configs' = c.heap
          /\ states' = s.heap
          /\ core' = [core EXCEPT ![i] =
                         [made |-> TRUE, config |-> c.ref, state |-> s.ref,
                          initial |-> s.heap[s.ref]]]
    /\ op' = [kind |-> "create_cfm_core", core |-> i, ref |-> 0]
    /\ UNCHANGED <<held, trace, writes, stepVars, ctorVars, adapterVars, rngVars>>

\* core i: step(dt=dt); the State object is updated in place
StepCore(i, dt) ==
    /\ core[i].made
    /\ RunLength(trace[i]) < MaxRun
    /\ \E c \in {configs[core[i].config]} :
       \E r \in {V2_step(c, states[core[i].state], None, None, dt)} :
          /\ states' = [states EXCEPT ![core[i].state] = r.st]
          /\ trace' = [trace EXCEPT ![i] =
                          Append(@, [kind |-> "step", dt |-> dt, cfg |-> c,
                                     out |-> r.out, st |-> r.st])]
    /\ op' = [kind |-> "step", core |-> i, ref |-> core[i].state]
    /\ UNCHANGED <<configs, core, held, writes, stepVars, ctorVars, adapterVars, rngVars>>

\* core i: reset(initial_state)
Reset(i, initial_state) ==
    /\ core[i].made
    /\ Cardinality(ResetEvents(trace[i])) < MaxResets
    /\ LET s == V2_reset(states, core[i].state, initial_state)
       IN /\ states' = s.heap
          /\ core' = [core EXCEPT ![i].state = s.ref]
          /\ trace' = [trace EXCEPT ![i] =
                          Append(@, [kind |-> "reset", arg |-> initial_state,
                                     given |-> IF initial_state = 0 THEN NotCalled
                                               ELSE states[initial_state],
                                     st |-> s.heap[s.ref]])]
    /\ op' = [kind |-> "reset", core |-> i, ref |-> initial_state]
    /\ UNCHANGED <<configs, held, writes, stepVars, ctorVars, adapterVars, rngVars>>

\* core i: get_state(); the caller keeps what it is given
GetState(i) ==
    /\ core[i].made
    /\ Cardinality(held) < Len(CallerStates) + MaxSnapshots
    /\ LET s == V2_get_state(states, core[i].state)
       IN /\ states' = s.heap
          /\ held' = held \cup {s.ref}
          /\ op' = [kind |-> "get_state", core |-> i, ref |-> s.ref]
    /\ UNCHANGED <<configs, core, trace, writes, stepVars, ctorVars, adapterVars, rngVars>>

\* the caller assigns a field of a State object it holds
WriteState(r, value) ==
    /\ r \in held
    /\ writes < MaxWrites
    /\ states[r].coherence_slow # value
    /\ states' = [states EXCEPT ![r].coherence_slow = value]
    /\ writes' = writes + 1
    /\ op' = [kind |-> "write_state", core |-> 0, ref |-> r]
    /\ UNCHANGED <<configs, core, held, trace, stepVars, ctorVars, adapterVars, rngVars>>

\* the caller assigns a field of core i's config: core.config.max_dt = value
WriteConfig(i, value) ==
    /\ core[i].made
    /\ writes < MaxWrites
    /\ configs[core[i].config].max_dt # value
    /\ configs' = [configs EXCEPT ![core[i].config].max_dt = value]
    /\ writes' = writes + 1
    /\ op' = [kind |-> "write_config", core |-> i, ref |-> core[i].config]
    /\ UNCHANGED <<states, core, held, trace, stepVars, ctorVars, adapterVars, rngVars>>

\* one core through its life, and a caller holding State objects
Next ==
    \/ \E cfg \in {0, get_preset(PresetNames[4]).value}, s \in {0} \cup held :
          Construct(1, cfg, s)
    \/ StepCore(1, ONE)
    \/ \E s \in {0} \cup held : Reset(1, s)
    \/ GetState(1)
    \/ \E r \in held : WriteState(r, Fx(900))

Spec == InitObjects /\ [][Next]_vars

\* one core run, reset and run again
NextReplay ==
    \/ \E cfg \in {0, get_preset(PresetNames[4]).value}, s \in {0} \cup held :
          Construct(1, cfg, s)
    \/ \E dt \in ObjDt : StepCore(1, dt)
    \/ \E s \in {0} \cup held : Reset(1, s)

SpecReplay == InitObjects /\ [][NextReplay]_vars

\* the Configuration objects of the cores made so far
ConfigsInUse == {core[j].config : j \in {k \in Cores : core[k].made}}

\* two cores side by side
NextTwo ==
    \/ \E i \in Cores, cfg \in {0} \cup ConfigsInUse,
          s \in {0} \cup DOMAIN CallerStates : Construct(i, cfg, s)
    \/ \E i \in Cores, name \in PresetsUsed : CreateCfmCore(i, name)
    \/ \E i \in Cores, dt \in ObjDt : StepCore(i, dt)
    \/ \E i \in Cores : WriteConfig(i, Fx(100))

SpecTwo == InitObjects /\ [][NextTwo]_vars

\* ---- properties of the objects ---------------------------------------------

Min(a, b) == IF a <= b THEN a ELSE b

\* cores i and j were given the same dt, under the same configuration
\* values, in each of their first k steps
SameInputs(i, j, k) ==
    \A m \in 1..k : /\ trace[i][m].dt = trace[j][m].dt
                    /\ trace[i][m].cfg = trace[j][m].cfg

\* C3: two cores constructed with equal initial State and stepped with the
\* same dt sequence under equal Configuration return equal mappings and
\* have equal internal states after every step.
C3_Deterministic ==
    \A i, j \in Cores :
        (i # j /\ core[i].made /\ core[j].made
               /\ core[i].initial = core[j].initial) =>
            \A k \in 1..Min(Len(trace[i]), Len(trace[j])) :
                SameInputs(i, j, k) =>
                    /\ trace[i][k].out = trace[j][k].out
                    /\ trace[i][k].st = trace[j][k].st

\* two cores with their own Configuration objects, both constructed from
\* the caller's State, have each made the same two steps of different dt
C3_Witness ==
    /\ core[1].made /\ core[2].made
    /\ core[1].config # core[2].config
    /\ core[1].initial = CallerStates[1]
    /\ core[2].initial = CallerStates[1]
    /\ Len(trace[1]) = 2 /\ Len(trace[2]) = 2
    /\ SameInputs(1, 2, 2)
    /\ trace[1][1].dt # trace[1][2].dt

\* position k holds the first reset of the trace
IsFirstReset(t, k) ==
    /\ k \in DOMAIN t
    /\ t[k].kind = "reset"
    /\ \A m \in 1..(k - 1) : t[m].kind = "step"

\* the steps after the reset at k repeat the outputs of the steps before
\* it, as far as they repeat the dt sequence
Replayed(t, k) ==
    \A m \in 1..(k - 1) :
        (/\ k + m <= Len(t)
         /\ \A n \in 1..m : /\ t[k + n].kind = "step"
                            /\ t[k + n].dt = t[n].dt) =>
            t[k + m].out = t[m].out

\* C5: after running a dt sequence, reset() with no argument and a replay
\* of the sequence returns the original outputs, whatever State the core
\* was constructed with.
C5_ResetReplays ==
    \A k \in DOMAIN trace[1] :
        (IsFirstReset(trace[1], k) /\ trace[1][k].arg = 0) =>
            Replayed(trace[1], k)

\* C5, amended: reset and replay returns the original outputs when reset
\* restores the State the core was constructed with: reset() for a core
\* constructed with the default State, reset(s) for one constructed from s.
C5_ResetToStartReplays ==
    \A k \in DOMAIN trace[1] :
        (/\ IsFirstReset(trace[1], k)
         /\ \/ trace[1][k].arg = 0 /\ core[1].initial = CFMCoreV2State(<<>>)
            \/ trace[1][k].arg # 0 /\ trace[1][k].given = core[1].initial) =>
            Replayed(trace[1], k)

\* a core constructed with the default State ran two steps of different dt,
\* was reset with no argument, and ran the same two steps again
C5_Witness ==
    /\ core[1].made
    /\ core[1].initial = CFMCoreV2State(<<>>)
    /\ Len(trace[1]) = 5
    /\ IsFirstReset(trace[1], 3)
    /\ trace[1][3].arg = 0
    /\ trace[1][4].kind = "step" /\ trace[1][4].dt = trace[1][1].dt
    /\ trace[1][5].kind = "step" /\ trace[1][5].dt = trace[1][2].dt
    /\ trace[1][1].dt # trace[1][2].dt

\* C7: a write to a State object the caller holds (one returned by
\* get_state, or one it passed as initial_state) leaves every core's State
\* as it was, and no operation of a core changes a State the caller holds.
C7_SnapshotsNeverAlias ==
    [][/\ op'.kind = "write_state" =>
             \A i \in Cores :
                 core[i].made => states'[core[i].state] = states[core[i].state]
       /\ op'.kind \in {"construct", "step", "reset", "get_state"} =>
             \A r \in held : states'[r] = states[r]]_vars

\* the caller has written to a State returned by get_state of a core that
\* has stepped, and the core's State differs from it
C7_Witness ==
    /\ op.kind = "write_state"
    /\ op.ref \notin DOMAIN CallerStates
    /\ core[1].made
    /\ Len(trace[1]) > 0
    /\ states[op.ref].coherence_slow # states[core[1].state].coherence_slow

\* C8: an operation on one core, or a write to one core's config, leaves
\* the State and the Configuration of every other core as they were.
C8_NoSharedMutableState ==
    [][\A i \in Cores :
          (core[i].made /\ op'.core # i) =>
              /\ states'[core[i].state] = states[core[i].state]
              /\ configs'[core[i].config] = configs[core[i].config]]_vars

\* ---- constructing a Configuration ------------------------------------------

\* numbers given as overrides: negative, zero, small, inside, one, large
OverrideValues == {Fx(0 - 1000), 0, Fx(5), Fx(500), ONE, Fx(2000)}

\* numbers given as pulse thresholds: below, inside and above [0, 1], and
\* the floats that are not finite
ThresholdValues == {Fx(0 - 1000), Fx(200), Fx(500), Fx(900), Fx(2000), PInf, NaN}

\* keyword arguments of CFMCoreV2Config(...): none, one field overridden,
\* or the three pulse thresholds together
ConfigOverrides ==
    {<<>>}
    \cup {[g \in {f} |-> v] : f \in DOMAIN V2ConfigDefaults, v \in OverrideValues}
    \cup {[pulse_threshold_low |-> a, pulse_threshold_medium |-> b,
           pulse_threshold_high |-> c] :
              a \in ThresholdValues, b \in ThresholdValues, c \in ThresholdValues}

InitConfig ==
    /\ kwargs \in ConfigOverrides
    /\ built = NotCalled
    /\ InitStepIdle
    /\ InitObjIdle
    /\ InitAdapterIdle
    /\ InitRngIdle

\* CFMCoreV2Config(**kwargs)
BuildV2Config ==
    /\ built = NotCalled
    /\ built' = CFMCoreV2Config(kwargs)
    /\ UNCHANGED <<kwargs, stepVars, objVars, adapterVars, rngVars>>

NextConfig == BuildV2Config

SpecConfig == InitConfig /\ [][NextConfig]_vars

Positive(x) == IsFinite(x) /\ x > 0

\* C10: every field of a constructed CFMCoreV2Config is in its documented
\* range: time constants, omegas and max_dt > 0; basin centers and targets
\* in [0,1]; basin_radius in [0.01, 0.5]; coupling gains, instability_base,
\* pulse thresholds, damping coefficients and alignment_lock_strength in
\* [0,1].
C10_ConfigInRange ==
    built # NotCalled =>
        /\ \A f \in {"tau_very_slow", "tau_slow", "tau_medium", "tau_fast",
                     "tau_very_fast", "omega_global", "omega_local", "max_dt"} :
               Positive(built[f])
        /\ \A f \in {"basin_center_c", "basin_center_e", "basin_center_s",
                     "coherence_target", "energy_target", "stability_target",
                     "alignment_target"} :
               InUnit(built[f])
        /\ IsFinite(built.basin_radius)
        /\ Fx(10) <= built.basin_radius /\ built.basin_radius <= Fx(500)
        /\ \A f \in {"coherence_energy_coupling", "stability_coherence_coupling",
                     "alignment_stability_coupling", "resonance_coupling",
                     "instability_base", "pulse_threshold_low",
                     "pulse_threshold_medium", "pulse_threshold_high",
                     "energy_dissipation", "envelope_decay", "flux_damping",
                     "alignment_lock_strength"} :
               InUnit(built[f])


\* C11: the pulse thresholds of a constructed CFMCoreV2Config are ordered
\* and in [0, 1]: 0 <= low <= medium <= high <= 1.
C11_ThresholdsOrdered ==
    built # NotCalled =>
        /\ IsFinite(built.pulse_threshold_low)
        /\ IsFinite(built.pulse_threshold_medium)
        /\ IsFinite(built.pulse_threshold_high)
        /\ 0 <= built.pulse_threshold_low
        /\ built.pulse_threshold_low <= built.pulse_threshold_medium
        /\ built.pulse_threshold_medium <= built.pulse_threshold_high
        /\ built.pulse_threshold_high <= ONE

\* a Configuration was constructed from thresholds given in decreasing
\* order, the last of them not a number
C11_Witness ==
    /\ built # NotCalled
    /\ "pulse_threshold_low" \in DOMAIN kwargs
    /\ kwargs.pulse_threshold_low = Fx(900)
    /\ kwargs.pulse_threshold_medium = Fx(200)
    /\ kwargs.pulse_threshold_high = NaN

\* tau_very_slow > tau_slow > tau_medium > tau_fast > tau_very_fast
TauDecreasing(c) ==
    /\ Gt(c.tau_very_slow, c.tau_slow)
    /\ Gt(c.tau_slow, c.tau_medium)
    /\ Gt(c.tau_medium, c.tau_fast)
    /\ Gt(c.tau_fast, c.tau_very_fast)

\* C12: the five time constants are strictly decreasing in each of the
\* four presets and in the default Configuration a core constructs.
C12_PresetHierarchy ==
    /\ \A k \in DOMAIN PresetNames :
           TauDecreasing(configs[get_preset(PresetNames[k]).value])
    /\ \A i \in Cores :
           (core[i].made /\ core[i].config \notin DOMAIN PresetObjects) =>
               /\ configs[core[i].config] = CFMCoreV2Config(<<>>)
               /\ TauDecreasing(configs[core[i].config])

\* the presets are loaded and a core has constructed the default
\* Configuration for itself
C12_Witness ==
    /\ Len(configs) > Len(PresetObjects)
    /\ core[1].made
    /\ core[1].config \notin DOMAIN PresetObjects
    /\ configs[get_preset(PresetNames[2]).value].tau_very_slow
           # configs[core[1].config].tau_very_slow

\* C13: the five time constants of every constructed CFMCoreV2Config are
\* strictly decreasing, whatever overrides were passed.
C13_HierarchyEnforced ==
    built # NotCalled => TauDecreasing(built)


\* ---- looking names up: presets and core types -------------------------------

\* CFM_CORE_TYPES: name -> the variant of core it stands for
CFM_CORE_TYPES == [cfm |-> 0, cfm_v0 |-> 0, cfm_v1 |-> 1, cfm_v2 |-> 2]

\* the keys of CFM_CORE_TYPES in the order they were inserted
CoreTypeNames ==
    <<<<"c", "f", "m">>, <<"c", "f", "m", "_", "v", "0">>,
      <<"c", "f", "m", "_", "v", "1">>, <<"c", "f", "m", "_", "v", "2">>>>

\* what create_cfm_core leaves: the error it raised or the core it returned,
\* and the constructors it had called by then
Failed(error, constructed) ==
    [raised |-> TRUE, type |-> error.type, message |-> error.message,
     constructed |-> constructed]
Made(v, cfg, constructed) ==
    [raised |-> FALSE, variant |-> v, config |-> cfg, constructed |-> constructed]

\* the config a core is constructed with: the one given, or a fresh default
GivenOrDefault(v, cfg, class, core_class) ==
    IF cfg = None
    THEN Made(v, [from |-> "default"], <<class, core_class>>)
    ELSE Made(v, [from |-> "given"], <<core_class>>)

\* create_cfm_core with core_type compared as it was written
create_cfm_core_case_sensitive(core_type, cfg, preset) ==
    IF Str(core_type) \notin DOMAIN CFM_CORE_TYPES
    THEN Failed(ValueError(<<"Unknown core type '", Str(core_type),
                             "'. Valid types: ">> \o join(CoreTypeNames)), <<>>)
    ELSE Made(CFM_CORE_TYPES[Str(core_type)], [from |-> "default"], <<>>)

\* create_cfm_core looking the preset up for every variant of core
create_cfm_core_preset_for_all(core_type, cfg, preset) ==
    IF Str(lower(core_type)) \notin DOMAIN CFM_CORE_TYPES
    THEN Failed(ValueError(<<"Unknown core type '", Str(core_type),
                             "'. Valid types: ">> \o join(CoreTypeNames)), <<>>)
    ELSE IF preset # None /\ get_preset(preset[1]).raised
    THEN Failed(get_preset(preset[1]), <<>>)
    ELSE IF Str(lower(core_type)) \in {"cfm", "cfm_v0"}
    THEN GivenOrDefault(0, cfg, "CFMCoreConfig", "CFMCore")
    ELSE IF Str(lower(core_type)) = "cfm_v1"
    THEN GivenOrDefault(1, cfg, "CFMCoreV1Config", "CFMCoreV1")
    ELSE IF preset # None
    THEN Made(2, [from |-> "preset", ref |-> get_preset(preset[1]).value],
              <<"CFMCoreV2">>)
    ELSE GivenOrDefault(2, cfg, "CFMCoreV2Config", "CFMCoreV2")

\* create_cfm_core(core_type, config=cfg, preset=preset)
create_cfm_core(core_type, cfg, preset) ==
    IF Str(lower(core_type)) \notin DOMAIN CFM_CORE_TYPES
    THEN Failed(ValueError(<<"Unknown core type '", Str(core_type),
                             "'. Valid types: ">> \o join(CoreTypeNames)), <<>>)
    ELSE IF Str(lower(core_type)) \in {"cfm", "cfm_v0"}
    THEN GivenOrDefault(0, cfg, "CFMCoreConfig", "CFMCore")
    ELSE IF Str(lower(core_type)) = "cfm_v1"
    THEN GivenOrDefault(1, cfg, "CFMCoreV1Config", "CFMCoreV1")
    ELSE IF preset # None
    THEN IF get_preset(preset[1]).raised
         THEN Failed(get_preset(preset[1]), <<>>)
         ELSE Made(2, [from |-> "preset", ref |-> get_preset(preset[1]).value],
                   <<"CFMCoreV2">>)
    ELSE GivenOrDefault(2, cfg, "CFMCoreV2Config", "CFMCoreV2")

\* str.upper(), used to write names the way callers may write them
upper(name) ==
    [i \in DOMAIN name |->
        IF \E k \in DOMAIN LowerCase : LowerCase[k] = name[i]
        THEN UpperCase[CHOOSE k \in DOMAIN LowerCase : LowerCase[k] = name[i]]
        ELSE name[i]]

\* a name written lower-case, upper-case or capitalised
Styled(name, style) ==
    IF style = "upper" THEN upper(name)
    ELSE IF style = "capital" /\ name # <<>>
    THEN upper(SubSeq(name, 1, 1)) \o Tail(name)
    ELSE name

\* the spellings callers use for the names in bases: each style, each
\* separator in place of "_", and the same with a trailing space
Spellings(bases, separators) ==
    LET written == {Styled(replace(b, "_", sep), style) :
                        b \in bases, sep \in separators,
                        style \in {"lower", "upper", "capital"}}
    IN written \cup {Append(w, " ") : w \in written}

\* names that are no preset: a part of one, two of them mixed up, nothing
NotPresetNames ==
    {<<"h", "i", "g", "h">>, <<"b", "a", "s", "e", "_", "l", "i", "n", "e">>,
     <<"f", "a", "s", "t">>, <<>>}

PresetSpellings ==
    Spellings({PresetNames[k] : k \in DOMAIN PresetNames} \cup NotPresetNames,
              {"_", "-", " ", "."})

\* names that are no core type
NotCoreTypeNames == {<<"c", "f", "m", "_", "v", "3">>, <<"v", "2">>, <<>>}

CoreTypeSpellings ==
    Spellings({CoreTypeNames[k] : k \in DOMAIN CoreTypeNames} \cup NotCoreTypeNames,
              {"_", "-"})

\* the preset argument of create_cfm_core: absent, a preset, not a preset
PresetArgs ==
    {None, Some(PresetNames[3]), Some(upper(replace(PresetNames[2], "_", "-"))),
     Some(<<"f", "a", "s", "t">>)}

\* the calls made: get_preset(name) or create_cfm_core(core_type, config, preset)
LookupCalls ==
    {[name |-> n] : n \in PresetSpellings}
    \cup {[core_type |-> t, config |-> c, preset |-> p] :
             t \in CoreTypeSpellings, c \in {None, Some("given")}, p \in PresetArgs}

InitLookup ==
    /\ kwargs \in LookupCalls
    /\ built = NotCalled
    /\ InitStepIdle
    /\ InitObjIdle
    /\ InitAdapterIdle
    /\ InitRngIdle

\* get_preset(**kwargs)
CallGetPreset ==
    /\ built = NotCalled
    /\ "name" \in DOMAIN kwargs
    /\ built' = get_preset(kwargs.name)
    /\ UNCHANGED <<kwargs, stepVars, objVars, adapterVars, rngVars>>

\* create_cfm_core(**kwargs)
CallCreateCfmCore ==
    /\ built = NotCalled
    /\ "core_type" \in DOMAIN kwargs
    /\ built' = create_cfm_core(kwargs.core_type, kwargs.config, kwargs.preset)
    /\ UNCHANGED <<kwargs, stepVars, objVars, adapterVars, rngVars>>

NextLookup == CallGetPreset \/ CallCreateCfmCore

SpecLookup == InitLookup /\ [][NextLookup]_vars

\* name is key written in some mix of cases, with any of "_", "-" and " "
\* where key has "_"
Normalizes(name, key) ==
    /\ Len(name) = Len(key)
    /\ \A i \in DOMAIN key :
          \/ name[i] = key[i]
          \/ \E k \in DOMAIN LowerCase :
                LowerCase[k] = key[i] /\ UpperCase[k] = name[i]
          \/ key[i] = "_" /\ name[i] \in {"-", " "}

\* text is one of the pieces of message
Lists(message, text) == \E i \in DOMAIN message : message[i] = text

\* C14: get_preset(name) returns the registered Configuration of the preset
\* whose name the given one normalizes to (any case, "-" or " " for "_"), and
\* for every other name raises ValueError with a message that lists the four
\* valid names.
C14_PresetByNormalizedName ==
    (built # NotCalled /\ "name" \in DOMAIN kwargs) =>
        IF \E k \in DOMAIN PresetNames : Normalizes(kwargs.name, PresetNames[k])
        THEN /\ ~built.raised
             /\ \A k \in DOMAIN PresetNames :
                   Normalizes(kwargs.name, PresetNames[k]) =>
                       /\ built.value = CFM_V2_PRESETS[Str(PresetNames[k])]
                       /\ PresetObjects[built.value] = PresetObjects[k]
        ELSE /\ built.raised
             /\ built.type = "ValueError"
             /\ \A k \in DOMAIN PresetNames :
                   Lists(built.message, Str(PresetNames[k]))

\* get_preset("HIGH RESONANCE") has returned the high_resonance preset
C14_Witness ==
    /\ built # NotCalled
    /\ "name" \in DOMAIN kwargs
    /\ kwargs.name = upper(replace(PresetNames[3], "_", " "))
    /\ ~built.raised
    /\ PresetObjects[built.value] = CFM_V2_PRESET_HIGH_RESONANCE

\* name is key written in some mix of cases
CaseVariant(name, key) ==
    /\ Len(name) = Len(key)
    /\ \A i \in DOMAIN key :
          \/ name[i] = key[i]
          \/ \E k \in DOMAIN LowerCase :
                LowerCase[k] = key[i] /\ UpperCase[k] = name[i]

\* C15: create_cfm_core raises ValueError listing the valid types, with no
\* constructor called, when core_type is not a case variant of cfm, cfm_v0,
\* cfm_v1 or cfm_v2; otherwise it returns a core of the variant named (v0 for
\* cfm and cfm_v0), and the only other failure is the ValueError of an unknown
\* preset name given for a v2 core.
C15_FactoryByCoreType ==
    (built # NotCalled /\ "core_type" \in DOMAIN kwargs) =>
        IF ~ \E k \in DOMAIN CoreTypeNames :
                 CaseVariant(kwargs.core_type, CoreTypeNames[k])
        THEN /\ built.raised
             /\ built.type = "ValueError"
             /\ \A k \in DOMAIN CoreTypeNames :
                   Lists(built.message, Str(CoreTypeNames[k]))
             /\ built.constructed = <<>>
        ELSE IF built.raised
        THEN /\ built.type = "ValueError"
             /\ CaseVariant(kwargs.core_type, CoreTypeNames[4])
             /\ kwargs.preset # None
             /\ ~ \E k \in DOMAIN PresetNames :
                     Normalizes(kwargs.preset[1], PresetNames[k])
             /\ \A k \in DOMAIN PresetNames :
                   Lists(built.message, Str(PresetNames[k]))
        ELSE /\ \A k \in DOMAIN CoreTypeNames :
                   CaseVariant(kwargs.core_type, CoreTypeNames[k]) =>
                       built.variant = <<0, 0, 1, 2>>[k]
             /\ built.constructed # <<>>

\* create_cfm_core("CFM", preset="fast") has returned a v0 core
C15_Witness ==
    /\ built # NotCalled
    /\ "core_type" \in DOMAIN kwargs
    /\ kwargs.core_type = upper(CoreTypeNames[1])
    /\ kwargs.preset = Some(<<"f", "a", "s", "t">>)
    /\ ~built.raised
    /\ built.variant = 0

\* C29: in create_cfm_core the preset only affects cfm_v2: for cfm_v2 a given
\* preset determines the configuration and any config passed with it is
\* ignored; for cfm, cfm_v0 and cfm_v1 the preset is never looked up, so even
\* an unknown preset raises no error and the core is built from the config
\* given or from the defaults.
C29_PresetOnlyForV2 ==
    (/\ built # NotCalled
     /\ "core_type" \in DOMAIN kwargs
     /\ \E k \in DOMAIN CoreTypeNames :
           CaseVariant(kwargs.core_type, CoreTypeNames[k])) =>
        IF CaseVariant(kwargs.core_type, CoreTypeNames[4])
        THEN \A k \in DOMAIN PresetNames :
                 (/\ kwargs.preset # None
                  /\ Normalizes(kwargs.preset[1], PresetNames[k])) =>
                     /\ ~built.raised
                     /\ built.variant = 2
                     /\ built.config = [from |-> "preset",
                                        ref |-> CFM_V2_PRESETS[Str(PresetNames[k])]]
        ELSE /\ ~built.raised
             /\ built.variant \in {0, 1}
             /\ built.config = IF kwargs.config = None THEN [from |-> "default"]
                               ELSE [from |-> "given"]

\* a v2 core was asked for with both a config and a preset, and was built
\* from the preset
C29_Witness ==
    /\ built # NotCalled
    /\ "core_type" \in DOMAIN kwargs
    /\ kwargs.core_type = CoreTypeNames[4]
    /\ kwargs.config # None
    /\ kwargs.preset = Some(PresetNames[3])
    /\ ~built.raised
    /\ built.config.from = "preset"

\* ---- cfm_interface: the adapter around a core --------------------------------

InterfaceConfigDefaults ==
    [enabled |-> FALSE, use_mock_core |-> TRUE, max_dt |-> ONE,
     fail_closed |-> TRUE,
     numeric_keys |-> <<"coherence", "stability", "intensity", "alignment">>]

\* CFMCoreInterfaceConfig(**overrides), after __post_init__
CFMCoreInterfaceConfig(overrides) ==
    [f \in DOMAIN InterfaceConfigDefaults |->
        IF f \notin DOMAIN overrides THEN InterfaceConfigDefaults[f]
        ELSE IF f = "max_dt" /\ Le(overrides[f], 0) THEN ONE
        ELSE overrides[f]]

\* Python values a core may put in its output
PyFloat(x) == [type |-> "float", value |-> x]
PyInt(n) == [type |-> "int", value |-> n]
PyStr(text) == [type |-> "str", value |-> text]
PyBool(b) == [type |-> "bool", value |-> b]
PyNone == [type |-> "NoneType", value |-> 0]
PyList == [type |-> "list", value |-> 0]
PyDict(d) == [type |-> "dict", value |-> d]

\* a call that raised an exception that is not a ValueError
Raise(type, message) == [raised |-> TRUE, type |-> type, message |-> message]

\* the texts float() parses, with the float each one gives
FloatLiterals ==
    ("0.5" :> Fx(500)) @@ ("2.5" :> Fx(2500)) @@ ("nan" :> NaN) @@ ("inf" :> PInf)

\* float(value): an int beyond the largest float raises OverflowError, a text
\* that is no number ValueError, a value of another type TypeError
float(value) ==
    IF value.type = "float" THEN Returned(value.value)
    ELSE IF value.type = "bool" THEN Returned(IF value.value THEN ONE ELSE 0)
    ELSE IF value.type = "int"
    THEN IF Abs(value.value) > MaxFloat
         THEN Raise("OverflowError", <<"int too large to convert to float">>)
         ELSE Returned(value.value * SCALE)
    ELSE IF value.type = "str"
    THEN IF value.value \in DOMAIN FloatLiterals
         THEN Returned(FloatLiterals[value.value])
         ELSE ValueError(<<"could not convert string to float: ", value.value>>)
    ELSE Raise("TypeError", <<"float() argument must be a string or a real number">>)

\* _normalize_value without the clamp to [0, 1]
normalize_value_unclamped(value) ==
    IF float(value).raised
    THEN IF float(value).type \in {"TypeError", "ValueError"}
         THEN Returned(0) ELSE float(value)
    ELSE IF IsNaN(float(value).value) \/ IsInf(float(value).value)
    THEN Returned(0)
    ELSE float(value)

\* CFMCoreAdapter._normalize_value
normalize_value(value) ==
    IF float(value).raised
    THEN IF float(value).type \in {"TypeError", "ValueError"}
         THEN Returned(0) ELSE float(value)
    ELSE IF IsNaN(float(value).value) \/ IsInf(float(value).value)
    THEN Returned(0)
    ELSE Returned(PyMax(0, PyMin(ONE, float(value).value)))

\* raw_output.get(key, 0.0)
get(raw_output, key) ==
    IF key \in DOMAIN raw_output THEN raw_output[key] ELSE PyFloat(0)

\* CFMCoreAdapter._extract_numeric_state: the keys are normalized in order,
\* and the first value that raises ends the loop
extract_numeric_state(keys, raw_output) ==
    IF \E i \in DOMAIN keys : normalize_value(get(raw_output, keys[i])).raised
    THEN normalize_value(get(raw_output,
             keys[CHOOSE i \in DOMAIN keys :
                     /\ normalize_value(get(raw_output, keys[i])).raised
                     /\ \A j \in 1..(i - 1) :
                           ~normalize_value(get(raw_output, keys[j])).raised]))
    ELSE Returned([key \in {keys[i] : i \in DOMAIN keys} |->
                      normalize_value(get(raw_output, key)).value])

\* CFMCoreAdapter(core=..., config=cfg)
CFMCoreAdapter(cfg) ==
    [config |-> cfg, call_count |-> 0, error_count |-> 0, last_error |-> None]

\* CFMCoreAdapter.step: whether the call of the core counts as an error
error_occurred(outcome) == outcome.raised \/ outcome.value.type # "dict"

error_message(outcome) ==
    IF outcome.raised THEN outcome.message
    ELSE <<"Core returned non-dict: ", outcome.value.type>>

raw_output(outcome) == IF error_occurred(outcome) THEN <<>> ELSE outcome.value.value

\* CFMCoreAdapter.step: the counters after the call of the core
\* (every call counted as an error)
Counted_every_call(a, outcome) ==
    [a EXCEPT !.call_count = @ + 1, !.error_count = @ + 1,
              !.last_error = Some(<<"error">>)]

\* CFMCoreAdapter.step: the counters after the call of the core
Counted(a, outcome) ==
    IF error_occurred(outcome)
    THEN [a EXCEPT !.call_count = @ + 1, !.error_count = @ + 1,
                   !.last_error = Some(error_message(outcome))]
    ELSE [a EXCEPT !.call_count = @ + 1]

\* CFMCoreAdapter.step: the mapping returned
Bundle(a, outcome, dt, clamped_dt, numeric_state) ==
    [raw |-> raw_output(outcome),
     numeric_state |-> numeric_state,
     metadata |->
        [call_count |-> a.call_count,
         error_count |-> a.error_count,
         last_error |-> IF error_occurred(outcome) THEN a.last_error ELSE None,
         dt_clamped |-> clamped_dt # dt,
         dt_used |-> clamped_dt]]

\* CFMCoreAdapter.step(dt=dt), the wrapped core doing outcome: the adapter
\* afterwards, and what the call returned or raised
Adapter_step(a, outcome, dt) ==
    [adapter |-> Counted(a, outcome),
     result |->
        IF extract_numeric_state(a.config.numeric_keys, raw_output(outcome)).raised
        THEN extract_numeric_state(a.config.numeric_keys, raw_output(outcome))
        ELSE Returned(Bundle(Counted(a, outcome), outcome, dt,
                 PyMax(0, PyMin(dt, a.config.max_dt)),
                 extract_numeric_state(a.config.numeric_keys,
                                       raw_output(outcome)).value))]

\* CFMCoreAdapter.reset
Adapter_reset(a) ==
    [a EXCEPT !.call_count = 0, !.error_count = 0, !.last_error = None]

MaxCalls == 2    \* calls made on one adapter

\* what the wrapped core does in one call of its step, numbered: it raises,
\* or it returns something that is no dict, or a dict
CoreOutcomes ==
    <<Raise("RuntimeError", <<"boom">>),
     Returned(PyNone),
     Returned(PyList),
     Returned(PyDict(<<>>)),
     Returned(PyDict([coherence |-> PyFloat(Fx(500)), stability |-> PyFloat(Fx(700)),
                      intensity |-> PyFloat(Fx(200)), alignment |-> PyFloat(Fx(900)),
                      time |-> PyFloat(Fx(100))])),
     Returned(PyDict([coherence |-> PyFloat(NaN), stability |-> PyFloat(PInf),
                      intensity |-> PyFloat(Fx(0 - 3000)),
                      alignment |-> PyFloat(Fx(2500))])),
     Returned(PyDict([coherence |-> PyStr("abc")])),
     Returned(PyDict([coherence |-> PyStr("0.5"), stability |-> PyBool(TRUE),
                      intensity |-> PyNone, alignment |-> PyStr("nan")])),
     Returned(PyDict([coherence |-> PyInt(2), stability |-> PyFloat(NInf),
                      extra |-> PyList])),
     Returned(PyDict([coherence |-> PyFloat(Fx(500)),
                      alignment |-> PyInt(MaxFloat + 1)]))>>

\* the dt given to the adapter's step
AdapterDt == {Fx(0 - 500), Fx(500), Fx(2000)}

\* the configs adapters are constructed with
AdapterConfigs ==
    {CFMCoreInterfaceConfig(<<>>),
     CFMCoreInterfaceConfig([max_dt |-> 0]),
     CFMCoreInterfaceConfig([max_dt |-> Fx(250),
                             numeric_keys |-> <<"coherence", "extra">>])}

InitAdapter ==
    /\ adapter \in {CFMCoreAdapter(cfg) : cfg \in AdapterConfigs}
    /\ bundle = NotCalled
    /\ calls = <<>>
    /\ InitStepIdle
    /\ InitObjIdle
    /\ InitCtorIdle
    /\ InitRngIdle

\* adapter.step(dt=dt) while the wrapped core does CoreOutcomes[k]
AdapterStep(k, dt) ==
    /\ Len(calls) < MaxCalls
    /\ adapter' = Adapter_step(adapter, CoreOutcomes[k], dt).adapter
    /\ bundle' = Adapter_step(adapter, CoreOutcomes[k], dt).result
    /\ calls' = Append(calls, [kind |-> "step", core |-> k])
    /\ UNCHANGED <<stepVars, objVars, ctorVars, rngVars>>

\* adapter.reset()
AdapterReset ==
    /\ Len(calls) < MaxCalls
    /\ adapter' = Adapter_reset(adapter)
    /\ calls' = Append(calls, [kind |-> "reset", core |-> 0])
    /\ UNCHANGED <<bundle, stepVars, objVars, ctorVars, rngVars>>

NextAdapter ==
    \/ \E k \in DOMAIN CoreOutcomes, dt \in AdapterDt : AdapterStep(k, dt)
    \/ AdapterReset

SpecAdapter == InitAdapter /\ [][NextAdapter]_vars

\* the step calls made on the adapter since its last reset
StepsCounted(t) == {k \in StepEvents(t) : \A r \in ResetEvents(t) : r < k}

\* the core raised, or returned something that is no dict
CoreFailed(outcome) == outcome.raised \/ outcome.value.type # "dict"

\* value cannot be coerced to a finite float
NotCoercible(value) ==
    \/ float(value).raised
    \/ IsNaN(float(value).value)
    \/ IsInf(float(value).value)

\* an error of the adapter layer: the core failed, or it returned for one of
\* the numeric keys a value that cannot be coerced to a finite float
AdapterLayerError(keys, outcome) ==
    \/ CoreFailed(outcome)
    \/ \E i \in DOMAIN keys :
          /\ keys[i] \in DOMAIN outcome.value.value
          /\ NotCoercible(outcome.value.value[keys[i]])

\* the last call on the adapter was a step, in which the core did
\* CoreOutcomes[k]
LastStepDid(k) ==
    /\ calls # <<>>
    /\ calls[Len(calls)].kind = "step"
    /\ calls[Len(calls)].core = k

\* C16: step of the adapter never propagates an exception, whatever the core
\* does: it returns its bundle, and the bundle has the zero defaults when the
\* core raised or returned no dict.
C16_StepNeverPropagates ==
    bundle # NotCalled =>
        /\ ~bundle.raised
        /\ \A k \in DOMAIN CoreOutcomes :
              (LastStepDid(k) /\ CoreFailed(CoreOutcomes[k])) =>
                  \A key \in DOMAIN bundle.value.numeric_state :
                      bundle.value.numeric_state[key] = 0

\* C17: every step of the adapter yields a numeric_state whose keys are
\* exactly the configured numeric_keys and whose values are finite floats
\* in [0, 1].
C17_NumericStateNormalized ==
    (calls # <<>> /\ calls[Len(calls)].kind = "step") =>
        /\ ~bundle.raised
        /\ DOMAIN bundle.value.numeric_state =
               {adapter.config.numeric_keys[i] :
                    i \in DOMAIN adapter.config.numeric_keys}
        /\ \A key \in DOMAIN bundle.value.numeric_state :
              InUnit(bundle.value.numeric_state[key])

MaxBasinSteps == 500

\* State(coherence_slow=0.1, energy_potential=0.9, stability_envelope=0.2)
BasinStart ==
    CFMCoreV2State([coherence_slow |-> Fx(100), energy_potential |-> Fx(900),
                    stability_envelope |-> Fx(200)])

\* state.get_distance_to_basin() with its default basin center
DistanceToBasin(s) ==
    V2State_get_distance_to_basin(s, FDiv(ONE, PHI), FDiv(ONE, PHI),
                                  FSub(ONE, FDiv(ONE, FMul(PHI, PHI))))

InitBasin ==
    /\ variant = 2
    /\ config = CFMCoreV2Config(<<>>)
    /\ state = BasinStart
    /\ out = NotCalled
    /\ raised = FALSE
    /\ steps = 0
    /\ dt_in = 0
    /\ passed = {}
    /\ human_messages = <<>>
    /\ external_events = <<>>
    /\ InitObjIdle
    /\ InitCtorIdle
    /\ InitAdapterIdle
    /\ InitRngIdle

\* core.step(dt=0.1)
StepBasin ==
    /\ steps < MaxBasinSteps
    /\ AfterStep(V2_step(config, state, None, None, Fx(100)), Fx(100), {})

NextBasin == StepBasin

SpecBasin == InitBasin /\ [][NextBasin]_vars

\* C19: after the 500 steps at dt = 0.1 from the start state, under the
\* default config, the distance to the basin center is strictly smaller than
\* it was at the start.
C19_BasinAttraction ==
    steps >= 500 =>
        Lt(DistanceToBasin(state), DistanceToBasin(BasinStart))

\* the 500th step has been made and the state has moved
C19_Witness ==
    /\ steps = 500
    /\ ~raised
    /\ state.coherence_slow # BasinStart.coherence_slow

\* ---- the order of the stages of a v2 step ------------------------------------

\* the field each of the first eleven stages writes, in the order they run
StageOrder ==
    <<"phase_local", "phase_global", "instability_pulse", "coherence_fast",
      "energy_flux", "resonance_index", "alignment_field", "coherence_slow",
      "energy_potential", "stability_envelope", "alignment_direction">>

\* the State as stage k finds it, when pre is the State before the step and
\* post the State after it: the fields of the stages before k are written,
\* the others are not yet
AsStageFinds(pre, post, k) ==
    [f \in DOMAIN pre |->
        IF \E j \in 1..(k - 1) : StageOrder[j] = f THEN post[f] ELSE pre[f]]

\* stage k run on frame f; pre is the State before the step
Stage(k, f, c, dt, pre) ==
    CASE k = 1 -> V2_update_phase_local(f, c, dt)
      [] k = 2 -> V2_update_phase_global(f, c, dt)
      [] k = 3 -> V2_update_instability_pulse(f, c, dt)
      [] k = 4 -> V2_update_coherence_fast(f, c, dt)
      [] k = 5 -> V2_update_energy_flux(f, c, dt)
      [] k = 6 -> V2_update_resonance_index(f, c, dt)
      [] k = 7 -> V2_update_alignment_field(f, c, dt)
      [] k = 8 -> V2_update_coherence_slow(f, c, dt, pre.stability_envelope)
      [] k = 9 -> V2_update_energy_potential(f, c, dt, pre.coherence_slow)
      [] k = 10 -> V2_update_stability_envelope(f, c, dt, pre.coherence_slow)
      [] k = 11 -> V2_update_alignment_direction(f, c, dt)

\* the twelfth stage changed nothing: the pulse is above no threshold
PulseQuiet(post, c) ==
    /\ ~Gt(post.instability_pulse, c.pulse_threshold_high)
    /\ ~Gt(post.instability_pulse, c.pulse_threshold_medium)
    /\ ~Gt(post.instability_pulse, c.pulse_threshold_low)

\* the stages whose inputs and output the pulse response never touches
ClearOfPulse == {1, 2, 3, 11}

\* the value stage k wrote is the one it computes from the State as it
\* finds it and, for the ninth and tenth, the coherence_slow of before the step
StagesInOrder(pre, post, c, dt) ==
    \A k \in DOMAIN StageOrder :
        (PulseQuiet(post, c) \/ k \in ClearOfPulse) =>
            post[StageOrder[k]] =
                Stage(k, Frame(AsStageFinds(pre, post, k)), c, dt, pre).st[StageOrder[k]]

\* C20: in a v2 step the stages run in the fixed order local phase, global
\* phase, instability pulse, fast coherence, energy flux, resonance index,
\* alignment field, slow coherence, energy potential, stability envelope,
\* alignment direction, pulse response; each reads what the stages before it
\* wrote and the old value of the rest, except that the energy-potential and
\* stability-envelope stages read the coherence_slow of before the step.
C20_StagesRunInOrder ==
    [][(variant = 2 /\ steps' = steps + 1 /\ ~raised') =>
           StagesInOrder(state, state', config, clamp_dt(config, dt_in'))]_vars

\* a v2 step at dt = 0.1 has run with the pulse response quiet, and it has
\* moved coherence_slow and energy_potential away from every start value
C20_Witness ==
    /\ variant = 2
    /\ steps = 1
    /\ ~raised
    /\ dt_in = Fx(100)
    /\ PulseQuiet(state, config)
    /\ state.coherence_slow \notin {s.coherence_slow : s \in SimStates(2)}
    /\ state.energy_potential \notin {s.energy_potential : s \in SimStates(2)}

\* ---- single functions, applied to chosen arguments ---------------------------

\* instability_pulse values: at, just above and well above each threshold of c
PulseValues(c) ==
    {0, ONE,
     c.pulse_threshold_low, FAdd(c.pulse_threshold_low, Fx(100)),
     c.pulse_threshold_medium, FAdd(c.pulse_threshold_medium, Fx(100)),
     c.pulse_threshold_high, FAdd(c.pulse_threshold_high, Fx(100))}

\* Configurations the single functions are applied under
FnConfigs ==
    {CFMCoreV2Config(<<>>),
     CFMCoreV2Config([pulse_threshold_low |-> Fx(50),
                      pulse_threshold_medium |-> Fx(100),
                      pulse_threshold_high |-> Fx(200),
                      alignment_lock_strength |-> Fx(200),
                      basin_radius |-> Fx(200),
                      tau_slow |-> Fx(500)]),
     CFMCoreV2Config([pulse_threshold_low |-> Fx(300),
                      pulse_threshold_medium |-> Fx(300),
                      pulse_threshold_high |-> Fx(300),
                      alignment_lock_strength |-> ONE,
                      envelope_decay |-> 0,
                      tau_slow |-> 1])}

\* States the single functions are applied to, but for instability_pulse
FnStates ==
    {CFMCoreV2State(<<>>),
     CFMCoreV2State([coherence_fast |-> 0, energy_flux |-> ONE,
                     alignment_field |-> Fx(10), coherence_slow |-> Fx(5)]),
     CFMCoreV2State([coherence_slow |-> Fx(900), coherence_fast |-> Fx(950),
                     stability_envelope |-> Fx(950), resonance_index |-> ONE,
                     alignment_field |-> Fx(300), alignment_direction |-> ONE,
                     energy_potential |-> Fx(100)]),
     CFMCoreV2State([coherence_slow |-> ONE, coherence_fast |-> ONE,
                     stability_envelope |-> ONE, resonance_index |-> 0,
                     alignment_field |-> Fx(300),
                     alignment_direction |-> Fx(500)])}

\* the calls of _apply_pulse_response
PulseCalls ==
    {[fn |-> "_apply_pulse_response", config |-> c,
      state |-> [s EXCEPT !.instability_pulse = p]] :
         c \in FnConfigs, s \in FnStates,
         p \in UNION {PulseValues(d) : d \in FnConfigs}}

\* the calls of _basin_attraction: x over [0, 1], toward each basin center
BasinCalls ==
    {[fn |-> "_basin_attraction", config |-> c, x |-> x, mu |-> mu] :
         c \in FnConfigs,
         x \in {0, Fx(100), Fx(300), Fx(500), INV_PHI, Fx(700), Fx(900), ONE},
         mu \in {V2ConfigDefaults.basin_center_c, Fx(300), Fx(900)}}

\* the calls of _compute_alignment_output
AlignmentCalls ==
    {[fn |-> "_compute_alignment_output", config |-> c, state |-> s] :
         c \in FnConfigs, s \in FnStates}

\* field values a caller gives to the constructor or puts in a dict
GivenFields ==
    {[phase_global |-> a, coherence_slow |-> b, time |-> t, step_count |-> n] :
         a \in {Fx(0 - 300), 0, Fx(500), Fx(999), Fx(1500), PInf, NInf, NaN},
         b \in {Fx(0 - 500), 0, Fx(500), ONE, Fx(2000), NaN},
         t \in {Fx(0 - 1000), 0, Fx(2000), NaN},
         n \in {0 - 3, 0, 5}}
    \cup {[energy_flux |-> Fx(200)]}

\* State objects a caller holds: thirteen fields, assigned freely
GivenStates ==
    {[f \in DOMAIN V2StateDefaults |->
         IF f \in DOMAIN g THEN g[f] ELSE V2StateDefaults[f]] : g \in GivenFields}

\* the calls that make a State
StateCalls ==
    {[fn |-> "CFMCoreV2State", values |-> g] : g \in GivenFields}
    \cup {[fn |-> "from_dict", data |-> g] : g \in GivenFields}
    \cup {[fn |-> "copy", state |-> s] : s \in GivenStates}
    \cup {[fn |-> "to_dict", state |-> s] : s \in GivenStates}

\* the calls of _update_stability_envelope, with the coherence_slow the
\* step began with
EnvelopeCalls ==
    {[fn |-> "_update_stability_envelope", config |-> c, state |-> s, dt |-> dt,
      prev_coherence |-> prev] :
         c \in FnConfigs, s \in FnStates, dt \in {0, Fx(100), ONE},
         prev \in {Fx(200), Fx(500), Fx(900)}}

\* the calls of _update_state, on States with the pulse as constructed and
\* with a low pulse
UpdateCalls ==
    {[fn |-> "_update_state", config |-> c,
      state |-> [s EXCEPT !.instability_pulse = p], dt |-> dt] :
         c \in FnConfigs, s \in FnStates, p \in {Fx(100), INV_PHI2},
         dt \in {Fx(0 - 1000), 0, Fx(100)}}

\* self._apply_pulse_response() on a core holding kwargs.state
CallApplyPulseResponse ==
    /\ built = NotCalled
    /\ kwargs.fn = "_apply_pulse_response"
    /\ built' = Returned(V2_apply_pulse_response(Frame(kwargs.state),
                                               kwargs.config).st)
    /\ UNCHANGED <<kwargs, stepVars, objVars, adapterVars, rngVars>>

\* the fields in which two States differ
Changed(pre, post) == {f \in DOMAIN pre : post[f] # pre[f]}

\* C21: the pulse response applies one tier, chosen by the instability_pulse
\* p: above the high threshold it may change coherence_fast, energy_flux,
\* alignment_field and coherence_slow; above medium but not high, the first
\* three only; above low but not medium, coherence_fast only; at or below low,
\* nothing; no other field ever changes.
C21_PulseTiers ==
    (built # NotCalled /\ kwargs.fn = "_apply_pulse_response") =>
        LET p == kwargs.state.instability_pulse
            c == kwargs.config
            changed == Changed(kwargs.state, built.value)
        IN /\ Gt(p, c.pulse_threshold_high) =>
                 changed \subseteq {"coherence_fast", "energy_flux",
                                    "alignment_field", "coherence_slow"}
           /\ (Gt(p, c.pulse_threshold_medium) /\ Le(p, c.pulse_threshold_high)) =>
                 changed \subseteq {"coherence_fast", "energy_flux", "alignment_field"}
           /\ (Gt(p, c.pulse_threshold_low) /\ Le(p, c.pulse_threshold_medium)) =>
                 changed \subseteq {"coherence_fast"}
           /\ Le(p, c.pulse_threshold_low) => changed = {}
           /\ changed \cap {"instability_pulse", "energy_potential",
                            "stability_envelope", "phase_global", "phase_local",
                            "alignment_direction", "resonance_index",
                            "time", "step_count"} = {}

\* under the thresholds 0.05, 0.1 and 0.2 a pulse above medium and not above
\* high has changed coherence_fast, energy_flux and alignment_field and
\* nothing else
C21_Witness ==
    /\ built # NotCalled
    /\ kwargs.fn = "_apply_pulse_response"
    /\ kwargs.config.pulse_threshold_medium = Fx(100)
    /\ kwargs.config.pulse_threshold_high = Fx(200)
    /\ Gt(kwargs.state.instability_pulse, kwargs.config.pulse_threshold_medium)
    /\ Le(kwargs.state.instability_pulse, kwargs.config.pulse_threshold_high)
    /\ Changed(kwargs.state, built.value) =
           {"coherence_fast", "energy_flux", "alignment_field"}

\* self._basin_attraction(kwargs.x, kwargs.mu)
CallBasinAttraction ==
    /\ built = NotCalled
    /\ kwargs.fn = "_basin_attraction"
    /\ built' = Returned(V2_basin_attraction(kwargs.config, kwargs.x, kwargs.mu))
    /\ UNCHANGED <<kwargs, stepVars, objVars, adapterVars, rngVars>>

\* C22: _basin_attraction(x, mu) is direction * basin_strength_inner * distance
\* when distance = |x - mu| is below basin_radius / PHI, direction *
\* basin_strength_outer from there up to below basin_radius * PHI, and 0 from
\* basin_radius * PHI on, with direction +1 if mu > x and -1 otherwise; so it
\* is 0 at x = mu.
C22_BasinTwoTiers ==
    (built # NotCalled /\ kwargs.fn = "_basin_attraction") =>
        LET c == kwargs.config
            distance == FAbs(FSub(kwargs.x, kwargs.mu))
            direction == IF kwargs.mu > kwargs.x THEN ONE ELSE 0 - ONE
            inner == FDiv(c.basin_radius, PHI)
            outer == FMul(c.basin_radius, PHI)
        IN /\ distance < inner =>
                 built.value = FMul(FMul(direction, c.basin_strength_inner), distance)
           /\ (inner <= distance /\ distance < outer) =>
                 built.value = FMul(direction, c.basin_strength_outer)
           /\ distance >= outer => built.value = 0
           /\ kwargs.x = kwargs.mu => built.value = 0

\* a call beyond the outer radius has returned 0
C22_Witness ==
    /\ built # NotCalled
    /\ kwargs.fn = "_basin_attraction"
    /\ kwargs.x = 0
    /\ kwargs.mu = kwargs.config.basin_center_c
    /\ kwargs.config.basin_radius = Fx(200)
    /\ kwargs.config.basin_strength_outer > 0
    /\ built.value = 0

\* self._compute_alignment_output() on a core holding kwargs.state
CallComputeAlignmentOutput ==
    /\ built = NotCalled
    /\ kwargs.fn = "_compute_alignment_output"
    /\ built' = Returned(V2_compute_alignment_output(kwargs.config, kwargs.state))
    /\ UNCHANGED <<kwargs, stepVars, objVars, adapterVars, rngVars>>

\* C23: the alignment output takes the lock-in branch exactly when
\* coherence_output * stability_output > alignment_lock_strength: it is then
\* clamp01(field * (1 - w) + target * w), w = smooth_step(product,
\* alignment_lock_strength, 1), target = alignment_lock_strength +
\* (1 - alignment_lock_strength) * w; otherwise it is clamp01(alignment_field +
\* 0.1 * (alignment_direction - 0.5) + 0.15 * resonance_index).
C23_AlignmentLockIn ==
    (built # NotCalled /\ kwargs.fn = "_compute_alignment_output") =>
        LET c == kwargs.config
            s == kwargs.state
            lock == c.alignment_lock_strength
            product == FMul(V2_compute_coherence_output(c, s),
                            V2_compute_stability_output(c, s))
            w == V2_smooth_step(product, lock, ONE)
            target == FAdd(lock, FMul(FSub(ONE, lock), w))
        IN IF product > lock
           THEN built.value =
                    clamp01(FAdd(FMul(s.alignment_field, FSub(ONE, w)),
                                 FMul(target, w)))
           ELSE built.value =
                    clamp01(FAdd(FAdd(s.alignment_field,
                                      FMul(Fx(100), FSub(s.alignment_direction,
                                                         Fx(500)))),
                                 FMul(Fx(150), s.resonance_index)))

\* the product equals alignment_lock_strength = 1, and the output is the
\* alignment_field 0.3 of the branch without lock-in
C23_Witness ==
    /\ built # NotCalled
    /\ kwargs.fn = "_compute_alignment_output"
    /\ kwargs.config.alignment_lock_strength = ONE
    /\ FMul(V2_compute_coherence_output(kwargs.config, kwargs.state),
            V2_compute_stability_output(kwargs.config, kwargs.state)) = ONE
    /\ built.value = Fx(300)

\* CFMCoreV2State(**kwargs.values)
CallState ==
    /\ built = NotCalled
    /\ kwargs.fn = "CFMCoreV2State"
    /\ built' = Returned(CFMCoreV2State(kwargs.values))
    /\ UNCHANGED <<kwargs, stepVars, objVars, adapterVars, rngVars>>

\* CFMCoreV2State.from_dict(kwargs.data)
CallFromDict ==
    /\ built = NotCalled
    /\ kwargs.fn = "from_dict"
    /\ built' = Returned(V2State_from_dict(kwargs.data))
    /\ UNCHANGED <<kwargs, stepVars, objVars, adapterVars, rngVars>>

\* kwargs.state.copy()
CallCopy ==
    /\ built = NotCalled
    /\ kwargs.fn = "copy"
    /\ built' = Returned(V2State_copy_of(kwargs.state))
    /\ UNCHANGED <<kwargs, stepVars, objVars, adapterVars, rngVars>>

\* CFMCoreV2State.from_dict(kwargs.state.to_dict())
CallToDictFromDict ==
    /\ built = NotCalled
    /\ kwargs.fn = "to_dict"
    /\ built' = Returned(V2State_from_dict(V2State_to_dict(kwargs.state)))
    /\ UNCHANGED <<kwargs, stepVars, objVars, adapterVars, rngVars>>

\* C25: every CFMCoreV2State produced by the constructor, by copy() or by
\* from_dict() from arbitrary numeric field values satisfies validate().
C25_ConstructedStatesValid ==
    (built # NotCalled /\ kwargs.fn \in {"CFMCoreV2State", "from_dict", "copy"}) =>
        V2State_validate(built.value)

\* C28: for every valid State s, from_dict(to_dict(s)) and s.copy() equal s
\* on all thirteen fields, and from_dict fills every missing key with the
\* constructor's default.
C28_RoundTrip ==
    built # NotCalled =>
        /\ (kwargs.fn \in {"copy", "to_dict"} /\ V2State_validate(kwargs.state)) =>
               \A f \in DOMAIN V2StateDefaults : built.value[f] = kwargs.state[f]
        /\ kwargs.fn = "from_dict" =>
               \A f \in DOMAIN V2StateDefaults \ DOMAIN kwargs.data :
                   built.value[f] = CFMCoreV2State(<<>>)[f]

\* a valid State away from the defaults came back from to_dict and from_dict
C28_Witness ==
    /\ built # NotCalled
    /\ kwargs.fn = "to_dict"
    /\ V2State_validate(kwargs.state)
    /\ kwargs.state.phase_global = Fx(999)
    /\ kwargs.state.coherence_slow = ONE
    /\ kwargs.state.step_count = 5
    /\ built.value = kwargs.state

\* self._update_stability_envelope(dt, prev_coherence) on a core holding
\* kwargs.state: the stability_envelope it leaves
CallUpdateStabilityEnvelope ==
    /\ built = NotCalled
    /\ kwargs.fn = "_update_stability_envelope"
    /\ built' = Returned(V2_update_stability_envelope(
                             Frame(kwargs.state), kwargs.config, kwargs.dt,
                             kwargs.prev_coherence).st.stability_envelope)
    /\ UNCHANGED <<kwargs, stepVars, objVars, adapterVars, rngVars>>

\* C26: the stability-envelope stage applies its whole increment at rate
\* 1/tau_slow: before clamping, stability_envelope changes by dt *
\* ((stability_target * smooth_step(pre-step coherence_slow, 0.3, 0.8) -
\* stability_envelope) - envelope_decay * (1 - alignment_field) +
\* basin_attraction(stability_envelope, basin_center_s)) / tau_slow.
C26_EnvelopeRate ==
    (built # NotCalled /\ kwargs.fn = "_update_stability_envelope") =>
        LET c == kwargs.config
            s == kwargs.state
            target == FMul(c.stability_target,
                           V2_smooth_step(kwargs.prev_coherence, Fx(300), Fx(800)))
            decay == FMul(c.envelope_decay, FSub(ONE, s.alignment_field))
            basin == V2_basin_attraction(c, s.stability_envelope, c.basin_center_s)
            change == FDiv(FMul(kwargs.dt,
                                FAdd(FSub(FSub(target, s.stability_envelope), decay),
                                     basin)),
                           c.tau_slow)
        IN built.value = clamp01(FAdd(s.stability_envelope, change))

\* self._update_state(dt) with the dt that step has clamped, on a core
\* holding kwargs.state: the State it leaves
CallUpdateState ==
    /\ built = NotCalled
    /\ kwargs.fn = "_update_state"
    /\ built' = Returned(V2_update_state(kwargs.state, kwargs.config,
                                         clamp_dt(kwargs.config, kwargs.dt)).st)
    /\ UNCHANGED <<kwargs, stepVars, objVars, adapterVars, rngVars>>

ChannelVariables == {StageOrder[k] : k \in DOMAIN StageOrder}

PulseResponseWrites ==
    {"coherence_fast", "energy_flux", "alignment_field", "coherence_slow"}

\* C27: a v2 step whose clamped dt is 0 leaves time unchanged and adds 1 to
\* step_count; each of the eleven continuous stages leaves the channel
\* variables unchanged, so that only the pulse response can change
\* coherence_fast, energy_flux, alignment_field and coherence_slow; from a
\* valid State with instability_pulse <= pulse_threshold_low all eleven
\* channel variables are unchanged.
C27_ZeroDtStep ==
    (/\ built # NotCalled
     /\ kwargs.fn = "_update_state"
     /\ clamp_dt(kwargs.config, kwargs.dt) = 0) =>
        /\ built.value.time = kwargs.state.time
        /\ built.value.step_count = kwargs.state.step_count + 1
        /\ \A k \in DOMAIN StageOrder :
               Stage(k, Frame(kwargs.state), kwargs.config, 0, kwargs.state).st
                   = kwargs.state
        /\ Changed(kwargs.state, built.value) \cap ChannelVariables
               \subseteq PulseResponseWrites
        /\ (/\ V2State_validate(kwargs.state)
            /\ Le(kwargs.state.instability_pulse,
                  kwargs.config.pulse_threshold_low)) =>
               Changed(kwargs.state, built.value) \cap ChannelVariables = {}

InitFn ==
    /\ \/ kwargs \in PulseCalls
       \/ kwargs \in UpdateCalls
       \/ kwargs \in EnvelopeCalls
       \/ kwargs \in StateCalls
       \/ kwargs \in AlignmentCalls
       \/ kwargs \in BasinCalls
    /\ built = NotCalled
    /\ InitStepIdle
    /\ InitObjIdle
    /\ InitAdapterIdle
    /\ InitRngIdle

NextFn ==
    \/ CallApplyPulseResponse
    \/ CallBasinAttraction
    \/ CallComputeAlignmentOutput
    \/ CallState
    \/ CallFromDict
    \/ CallCopy
    \/ CallToDictFromDict
    \/ CallUpdateStabilityEnvelope
    \/ CallUpdateState

SpecFn == InitFn /\ [][NextFn]_vars


\* ---- the read operations of a v2 core ---------------------------------------

\* CFMCoreV2Config.to_dict: the thirty fields under their names
V2Config_to_dict(c) == [f \in DOMAIN V2ConfigDefaults |-> c[f]]

\* CFMCoreV2State.get_channel_coherence .. get_channel_alignment
V2State_channels(s) ==
    [coherence |-> [slow |-> s.coherence_slow, fast |-> s.coherence_fast],
     energy |-> [potential |-> s.energy_potential, flux |-> s.energy_flux],
     stability |-> [envelope |-> s.stability_envelope,
                    pulse |-> s.instability_pulse],
     phase |-> [global |-> s.phase_global, local |-> s.phase_local],
     alignment |-> [field |-> s.alignment_field,
                    direction |-> s.alignment_direction]]

\* CFMCoreV2.get_status
V2_get_status(c, s) ==
    [state |-> V2State_to_dict(s),
     config |-> V2Config_to_dict(c),
     version |-> 2,
     channels |-> V2State_channels(s),
     basin_distance |->
         V2State_get_distance_to_basin(s, c.basin_center_c, c.basin_center_e,
                                       c.basin_center_s)]

\* CFMCoreV2.get_channel_states
V2_get_channel_states(s) ==
    [coherence |-> V2State_channels(s).coherence,
     energy |-> V2State_channels(s).energy,
     stability |-> V2State_channels(s).stability,
     phase |-> V2State_channels(s).phase,
     alignment |-> V2State_channels(s).alignment,
     resonance |-> [index |-> s.resonance_index]]

ReadOps ==
    {"_compute_coherence_output", "_compute_stability_output",
     "_compute_intensity_output", "_compute_alignment_output",
     "get_state", "get_status", "get_channel_states", "verify_state_bounds"}

\* what a call on a core leaves behind, and what it returns
Left(c, s, value) == [config |-> c, st |-> s, value |-> value]

\* what the read operation returns
V2_read_value(c, s, name) ==
    CASE name = "_compute_coherence_output" -> V2_compute_coherence_output(c, s)
      [] name = "_compute_stability_output" -> V2_compute_stability_output(c, s)
      [] name = "_compute_intensity_output" -> V2_compute_intensity_output(c, s)
      [] name = "_compute_alignment_output" -> V2_compute_alignment_output(c, s)
      [] name = "get_state" -> CFMCoreV2State(s)
      [] name = "get_status" -> V2_get_status(c, s)
      [] name = "get_channel_states" -> V2_get_channel_states(s)
      [] name = "verify_state_bounds" -> V2State_validate(s)

\* a read operation that counts itself as a step
V2_read_counting(c, s, name) ==
    Left(c, [s EXCEPT !.step_count = @ + 1], V2_read_value(c, s, name))

\* a read operation on a core with Configuration c and State s: none of
\* them assigns a field of either
V2_read(c, s, name) == Left(c, s, V2_read_value(c, s, name))

MaxReads == 1

\* the caller calls a read operation of the core
ReadV2(name) ==
    /\ variant = 2
    /\ ~raised
    /\ Len(kwargs) < MaxReads
    /\ config' = V2_read(config, state, name).config
    /\ state' = V2_read(config, state, name).st
    /\ built' = Returned(V2_read(config, state, name).value)
    /\ kwargs' = Append(kwargs, [fn |-> name, at |-> steps])
    /\ UNCHANGED <<variant, out, raised, steps, dt_in, passed, human_messages,
                   external_events, objVars, adapterVars, rngVars>>

InitRead ==
    /\ InitStep
    /\ variant = 2

NextRead ==
    \/ StepV2
    \/ \E name \in ReadOps : ReadV2(name)

SpecRead == InitRead /\ [][NextRead]_vars

\* C24: the four output projections, get_state, get_status,
\* get_channel_states and verify_state_bounds leave all thirteen State fields
\* and the Configuration unchanged, so a step made after one of them returns
\* what it would have returned without it.
C24_ReadsArePure ==
    [][(kwargs' # kwargs) =>
          /\ state' = state
          /\ config' = config
          /\ \A dt \in DtSet : V2_run(config', state', dt) = V2_run(config, state, dt)
      ]_vars

\* get_status was called between the first step and the second
C24_Witness ==
    /\ steps = 2
    /\ ~raised
    /\ Len(kwargs) = 1
    /\ kwargs[1].fn = "get_status"
    /\ kwargs[1].at = 1
    /\ built.value.version = 2


\* ---- tools/cfm_reference_runs.py: DeterministicRNG ---------------------------

LCG_A == 48271
LCG_M == 2147483647

\* (state * 48271) % 2147483647 over Python's unbounded integers, with a
\* result in 0 .. 2147483646 for a negative state too. The product does not
\* fit the 32 bits of the integers here, so it is taken in two parts:
\* with q = M div a and r = M mod a, a * x mod M = a * (x mod q) - r * (x div q),
\* plus M when that is negative.
lcg_step(self_state) ==
    LET x == self_state % LCG_M
        t == LCG_A * (x % (LCG_M \div LCG_A))
                 - (LCG_M % LCG_A) * (x \div (LCG_M \div LCG_A))
    IN IF t < 0 THEN t + LCG_M ELSE t

\* the float state / 2147483647.0 is kept in units of 2^-20, rounded down:
\* for 0 <= state < 2^31 - 1 that is state div 2^11. A double tells
\* 2147483646 / 2147483647 from 1.0, and so does this.
FRACTION == 1024 * 1024
Quotient(self_state) == self_state \div 2048

\* low + u * (high - low) for a float u in units of 2^-20. For numbers
\* this close together a double rounds the product and the sum far below
\* the 2^-31 that separates u from 1, so the result is kept exactly, in
\* units of 2^-20 of a number step. A width beyond the largest number is
\* infinite: u * inf is inf, 0 * inf is nan, and so is the sum.
Exactly(n) == [finite |-> TRUE, n |-> n]
Rounded(x) == [finite |-> FALSE, x |-> x]
Within(u, low, high) ==
    IF IsFinite(FSub(high, low))
    THEN Exactly(low * FRACTION + u * FSub(high, low))
    ELSE Rounded(FAdd(low, IF u = 0 THEN FMul(0, FSub(high, low))
                           ELSE FSub(high, low)))

\* DeterministicRNG(seed)
DeterministicRNG(seed) == [state |-> IF seed # 0 THEN seed ELSE 1]

\* DeterministicRNG.next_float: the generator it leaves and the float returned
Rng_next_float(r) ==
    [rng |-> [state |-> lcg_step(r.state)],
     value |-> Quotient(lcg_step(r.state))]

\* DeterministicRNG.next_in_range
Rng_next_in_range(r, low, high) ==
    [rng |-> Rng_next_float(r).rng,
     value |-> Within(Rng_next_float(r).value, low, high)]

Rngs == {1, 2}

MaxDraws == 2

\* seeds the generators are made with: --seed takes any integer
Seeds == {0, 1, 0 - 1, 42, LCG_M - 1, LCG_M, 0 - LCG_M}

\* the (low, high) given to next_in_range: the dt jitter and the pulse
\* amplitude of the high_variability scenario, and a range whose width is
\* beyond the largest number
RngRanges ==
    {<<Fx(0 - 20), Fx(20)>>, <<0, Fx(100)>>, <<Fx(0 - 300000), Fx(300000)>>}

InitRng ==
    /\ draws \in {[i \in Rngs |-> <<[fn |-> "__init__", seed |-> sd[i],
                                     after |-> DeterministicRNG(sd[i]).state]>>] :
                      sd \in [Rngs -> Seeds]}
    /\ rng = [i \in Rngs |-> DeterministicRNG(draws[i][1].seed)]
    /\ InitStepIdle
    /\ InitObjIdle
    /\ InitCtorIdle
    /\ InitAdapterIdle

\* generator i: next_float()
NextFloat(i) ==
    /\ Len(draws[i]) <= MaxDraws
    /\ rng' = [rng EXCEPT ![i] = Rng_next_float(rng[i]).rng]
    /\ draws' = [draws EXCEPT ![i] =
                    Append(@, [fn |-> "next_float", before |-> rng[i].state,
                               after |-> Rng_next_float(rng[i]).rng.state,
                               value |-> Rng_next_float(rng[i]).value])]
    /\ UNCHANGED <<stepVars, objVars, ctorVars, adapterVars>>

\* generator i: next_in_range(low, high)
NextInRange(i, low, high) ==
    /\ Len(draws[i]) <= MaxDraws
    /\ rng' = [rng EXCEPT ![i] = Rng_next_in_range(rng[i], low, high).rng]
    /\ draws' = [draws EXCEPT ![i] =
                    Append(@, [fn |-> "next_in_range", before |-> rng[i].state,
                               after |-> Rng_next_in_range(rng[i], low, high).rng.state,
                               low |-> low, high |-> high,
                               value |-> Rng_next_in_range(rng[i], low, high).value])]
    /\ UNCHANGED <<stepVars, objVars, ctorVars, adapterVars>>

NextRng ==
    \/ \E i \in Rngs : NextFloat(i)
    \/ \E i \in Rngs, range \in RngRanges : NextInRange(i, range[1], range[2])

SpecRng == InitRng /\ [][NextRng]_vars

\* a + b mod 2147483647, for a and b in 0 .. 2147483646
AddMod(a, b) == IF a >= LCG_M - b THEN a - (LCG_M - b) ELSE a + b

Twice(a) == AddMod(a, a)

\* x * n mod 2147483647 by doubling
RECURSIVE TimesMod(_, _)
TimesMod(x, n) ==
    IF n = 0 THEN 0
    ELSE AddMod(Twice(TimesMod(x, n \div 2)), IF n % 2 = 1 THEN x % LCG_M ELSE 0)

\* what was called, with its arguments
CallOf(d) == IF d.fn = "next_in_range" THEN <<d.fn, d.low, d.high>> ELSE <<d.fn>>

\* generators i and j were made with the same seed, 0 counting as 1
SameSeed(i, j) ==
    DeterministicRNG(draws[i][1].seed) = DeterministicRNG(draws[j][1].seed)

\* each draw moves the state to (state * 48271) mod 2147483647
DrawsStepState ==
    \A i \in Rngs : \A k \in 2..Len(draws[i]) :
        /\ draws[i][k].before = draws[i][k - 1].after
        /\ draws[i][k].after = TimesMod(draws[i][k].before, LCG_A)

\* next_float returns state / 2147483647, in [0, 1)
FloatsInUnit ==
    \A i \in Rngs : \A k \in 2..Len(draws[i]) :
        draws[i][k].fn = "next_float" =>
            /\ draws[i][k].value = Quotient(draws[i][k].after)
            /\ 0 <= draws[i][k].value
            /\ draws[i][k].value < FRACTION

\* the same seed and the same calls give the same values
SameSeedSameSequence ==
    \A i, j \in Rngs :
        SameSeed(i, j) =>
            \A k \in 2..Min(Len(draws[i]), Len(draws[j])) :
                (\A m \in 2..k : CallOf(draws[i][m]) = CallOf(draws[j][m])) =>
                    draws[i][k].value = draws[j][k].value

\* low <= v < high
InRange(v, low, high) ==
    IF v.finite THEN low * FRACTION <= v.n /\ v.n < high * FRACTION
    ELSE Le(low, v.x) /\ Lt(v.x, high)

\* next_in_range(low, high) returns a value in [low, high) when low < high
RangesRespected ==
    \A i \in Rngs : \A k \in 2..Len(draws[i]) :
        (draws[i][k].fn = "next_in_range" /\ Lt(draws[i][k].low, draws[i][k].high)) =>
            InRange(draws[i][k].value, draws[i][k].low, draws[i][k].high)

\* C30: for every integer seed each next_float() sets the state to
\* (state * 48271) mod 2147483647 and returns state / 2147483647, a value in
\* [0, 1); the same seed gives the same sequence, seed 0 behaving as seed 1;
\* next_in_range(low, high) returns a value in [low, high) when low < high.
C30_DeterministicRNG ==
    /\ DrawsStepState
    /\ FloatsInUnit
    /\ SameSeedSameSequence
    /\ RangesRespected

=============================================================================
